---- MODULE Spec2Model ----
(***************************************************************************)
(* Lumi: single-pass bytecode compiler and stack VM.                       *)
(* Source text is a sequence of one-character strings.  The scanner, the   *)
(* Pratt compiler and the interpreter loop are operators over records      *)
(* that carry the fields of the Rust structs; a panic of the Rust code is  *)
(* the field abort = TRUE.                                                 *)
(***************************************************************************)
EXTENDS Integers, Sequences, FiniteSets, TLC

VARIABLES vm, phase, result, calls, pool

vars == <<vm, phase, result, calls, pool>>

(***************************************************************************)
(* Characters                                                              *)
(***************************************************************************)
NUL == "NUL"
NL == "\n"
QUOTE == "\""

LowerChars == <<"a","b","c","d","e","f","g","h","i","j","k","l","m",
                "n","o","p","q","r","s","t","u","v","w","x","y","z">>
DigitChars == <<"0","1","2","3","4","5","6","7","8","9">>

IndexOf(seq, ch) == CHOOSE i \in 1..Len(seq) : seq[i] = ch
InSeq(seq, ch) == \E i \in 1..Len(seq) : seq[i] = ch

is_alphabetic(ch) == InSeq(LowerChars, ch)
is_digit(ch) == InSeq(DigitChars, ch)

\* byte value of a character of the source
Ord(ch) ==
    IF is_alphabetic(ch) THEN 96 + IndexOf(LowerChars, ch)
    ELSE IF is_digit(ch) THEN 47 + IndexOf(DigitChars, ch)
    ELSE CASE ch = " " -> 32 [] ch = "!" -> 33 [] ch = QUOTE -> 34
           [] ch = "(" -> 40 [] ch = ")" -> 41 [] ch = "*" -> 42
           [] ch = "+" -> 43 [] ch = "," -> 44 [] ch = "-" -> 45
           [] ch = "." -> 46 [] ch = "/" -> 47 [] ch = ";" -> 59
           [] ch = "<" -> 60 [] ch = "=" -> 61 [] ch = ">" -> 62
           [] ch = "@" -> 64 [] ch = "[" -> 91 [] ch = "]" -> 93
           [] ch = "{" -> 123 [] ch = "}" -> 125 [] ch = NL -> 10
           [] OTHER -> 0

(***************************************************************************)
(* utils.rs: hash_str, FNV-1a on 32 bits, kept as two 16-bit halves        *)
(***************************************************************************)
RECURSIVE BitXor(_, _)
BitXor(a, b) ==
    IF a = 0 THEN b
    ELSE IF b = 0 THEN a
    ELSE (((a % 2) + (b % 2)) % 2) + (2 * BitXor(a \div 2, b \div 2))

FnvOffsetHi == 33052
FnvOffsetLo == 40389
FnvPrimeHi == 256
FnvPrimeLo == 403

\* hash.wrapping_mul(16777619) on <<hi, lo>>
WrappingMulPrime(h) ==
    LET t == h[2] * FnvPrimeLo
    IN  << ((h[1] * FnvPrimeLo) + (h[2] * FnvPrimeHi) + (t \div 65536)) % 65536,
           t % 65536 >>

RECURSIVE HashFrom(_, _, _)
HashFrom(h, chars, i) ==
    IF i > Len(chars) THEN h
    ELSE HashFrom(WrappingMulPrime(<<h[1], BitXor(h[2], Ord(chars[i]))>>),
                  chars, i + 1)

hash_str(chars) == HashFrom(<<FnvOffsetHi, FnvOffsetLo>>, chars, 1)

(***************************************************************************)
(* scanner.rs                                                              *)
(* A scanner is [source, start, current, line, abort]; start and current   *)
(* are the numbers of bytes of source in front of the two slices.          *)
(***************************************************************************)
Token(type, start, length, line) ==
    [token_type |-> type, start |-> start, length |-> length, line |-> line]

\* Token::default()
DefaultToken == Token("Nil", 0, 0, 0)

\* Scanner::new_empty()
new_empty == [source |-> <<>>, start |-> 0, current |-> 0, line |-> 0,
              abort |-> FALSE]

init_scanner(source) ==
    [source |-> source, start |-> 0, current |-> 0, line |-> 1,
     abort |-> FALSE]

Remaining(s) == Len(s.source) - s.current

sc_is_at_end(s) == Remaining(s) = 0 \/ s.source[s.current + 1] = NUL

sc_peek(s) == IF Remaining(s) > 0 THEN s.source[s.current + 1] ELSE NUL

\* self.current[1] is an out-of-bounds index when one byte is left
peek_next_panics(s) == ~sc_is_at_end(s) /\ Remaining(s) < 2

peek_next(s) == IF sc_is_at_end(s) \/ Remaining(s) < 2 THEN NUL
                ELSE s.source[s.current + 2]

sc_advance(s) == [s EXCEPT !.current = @ + 1]

match_next(s, expected) == ~sc_is_at_end(s) /\ s.source[s.current + 1] = expected

make_token(s, type) == Token(type, s.start, s.current - s.start, s.line)

\* start: self.current, length: message.len()
error_token(s, messageLen) == Token("Error", s.current, messageLen, s.line)

UnexpectedCharacterLen == 21
UnterminatedStringLen == 20

RECURSIVE SkipComment(_)
SkipComment(s) ==
    IF sc_peek(s) # NL /\ ~sc_is_at_end(s) THEN SkipComment(sc_advance(s)) ELSE s

RECURSIVE skip_whitespace(_)
skip_whitespace(s) ==
    LET c == sc_peek(s)
    IN  IF c \in {" ", "\r", "\t"} THEN skip_whitespace(sc_advance(s))
        ELSE IF c = NL THEN sc_advance([s EXCEPT !.line = @ + 1])
        ELSE IF c = "/" THEN
            IF peek_next_panics(s) THEN [s EXCEPT !.abort = TRUE]
            ELSE IF peek_next(s) = "/" THEN SkipComment(s)
            ELSE s
        ELSE s

RECURSIVE ScanString(_)
ScanString(s) ==
    IF sc_peek(s) # QUOTE /\ ~sc_is_at_end(s)
    THEN ScanString(sc_advance(IF sc_peek(s) = NL
                               THEN [s EXCEPT !.line = @ + 1] ELSE s))
    ELSE s

\* Scanner::string: <<token, scanner>>
sc_string(s) ==
    LET Close(t) ==
            IF sc_is_at_end(t) THEN <<error_token(t, UnterminatedStringLen), t>>
            ELSE <<make_token(sc_advance(t), "String"), sc_advance(t)>>
    IN  Close(ScanString(s))

RECURSIVE SkipDigits(_)
SkipDigits(s) == IF is_digit(sc_peek(s)) THEN SkipDigits(sc_advance(s)) ELSE s

\* Scanner::number: <<token, scanner>>
sc_number(s) ==
    LET Made(u) == <<make_token(u, "Number"), u>>
        Fraction(t) ==
            IF sc_peek(t) = "."
            THEN IF peek_next_panics(t) THEN <<DefaultToken, [t EXCEPT !.abort = TRUE]>>
                 ELSE IF is_digit(peek_next(t)) THEN Made(SkipDigits(sc_advance(t)))
                      ELSE <<make_token(t, "Number"), t>>
            ELSE <<make_token(t, "Number"), t>>
    IN  Fraction(SkipDigits(s))

\* keywords of identifier_type
identifier_type(keyword) ==
    CASE keyword = <<"a","n","d">> -> "And"
      [] keyword = <<"o","r">> -> "Or"
      [] keyword = <<"i","f">> -> "If"
      [] keyword = <<"e","l","s","e">> -> "Else"
      [] keyword = <<"f","a","l","s","e">> -> "False"
      [] keyword = <<"t","r","u","e">> -> "True"
      [] keyword = <<"f","u","n">> -> "Fun"
      [] keyword = <<"n","i","l">> -> "Nil"
      [] keyword = <<"p","r","i","n","t">> -> "Print"
      [] keyword = <<"r","e","t","u","r","n">> -> "Return"
      [] keyword = <<"w","h","i","l","e">> -> "While"
      [] keyword = <<"v","a","r">> -> "Var"
      [] keyword = <<"c","l","a","s","s">> -> "Class"
      [] keyword = <<"s","u","p","e","r">> -> "Super"
      [] keyword = <<"f","o","r">> -> "For"
      [] keyword = <<"t","h","i","s">> -> "This"
      [] OTHER -> "Identifier"

\* the keywords `let` and `final` of TokenType::Let and TokenType::Final, which
\* the compiler matches
keyword_type(keyword) ==
    CASE keyword = <<"l","e","t">> -> "Let"
      [] keyword = <<"f","i","n","a","l">> -> "Final"
      [] OTHER -> identifier_type(keyword)

RECURSIVE SkipAlnum(_)
SkipAlnum(s) ==
    IF is_alphabetic(sc_peek(s)) \/ is_digit(sc_peek(s))
    THEN SkipAlnum(sc_advance(s)) ELSE s

\* Scanner::identifier: <<token, scanner>>
sc_identifier(s) ==
    LET Made(t) ==
            <<make_token(t, keyword_type(SubSeq(t.source, t.start + 1, t.current))), t>>
    IN  Made(SkipAlnum(s))

TwoChar(s, one, two) ==
    IF match_next(s, "=") THEN <<make_token(sc_advance(s), two), sc_advance(s)>>
    ELSE <<make_token(s, one), s>>

\* Scanner::scan_token: <<token, scanner>>
scan_token(s0) ==
    LET Scan(s1) ==
            IF s1.abort THEN <<DefaultToken, s1>>
            ELSE IF sc_is_at_end(s1) THEN <<make_token(s1, "Eof"), s1>>
            ELSE LET c == s1.source[s1.current + 1]
                     s == sc_advance(s1)
                 IN  IF is_alphabetic(c) THEN sc_identifier(s)
                     ELSE IF is_digit(c) THEN sc_number(s)
                     ELSE CASE c = "(" -> <<make_token(s, "LeftParen"), s>>
                            [] c = ")" -> <<make_token(s, "RightParen"), s>>
                            [] c = "{" -> <<make_token(s, "LeftBrace"), s>>
                            [] c = "}" -> <<make_token(s, "RightBrace"), s>>
                            [] c = "[" -> <<make_token(s, "LeftBracket"), s>>
                            [] c = "]" -> <<make_token(s, "RightBracket"), s>>
                            [] c = "," -> <<make_token(s, "Comma"), s>>
                            [] c = "." -> <<make_token(s, "Dot"), s>>
                            [] c = ";" -> <<make_token(s, "Semicolon"), s>>
                            [] c = "+" -> <<make_token(s, "Plus"), s>>
                            [] c = "*" -> <<make_token(s, "Star"), s>>
                            [] c = "/" -> <<make_token(s, "Slash"), s>>
                            [] c = "-" -> <<make_token(s, "Minus"), s>>
                            [] c = "!" -> TwoChar(s, "Bang", "BangEqual")
                            [] c = "=" -> TwoChar(s, "Equal", "EqualEqual")
                            [] c = "<" -> TwoChar(s, "Less", "LessEqual")
                            [] c = ">" -> TwoChar(s, "Greater", "GreaterEqual")
                            [] c = QUOTE -> sc_string(s)
                            [] OTHER -> <<error_token(s, UnexpectedCharacterLen), s>>
        Start(w) == Scan([w EXCEPT !.start = w.current])
    IN  Start(skip_whitespace(s0))

(***************************************************************************)
(* lnum.rs.  A number is [kind, num, den]: kind is the variant (Small, Big, *)
(* Long: i16, i32, i64; Float: f64), the value is num / den in lowest       *)
(* terms; den = 0 is an infinity (num = 1, -1) or NaN (num = 0).            *)
(***************************************************************************)
I16Max == 32767
I32Max == 2147483647

RECURSIVE Gcd(_, _)
Gcd(a, b) == IF b = 0 THEN a ELSE Gcd(b, a % b)

Abs(n) == IF n < 0 THEN -n ELSE n
Sign(n) == IF n < 0 THEN -1 ELSE IF n > 0 THEN 1 ELSE 0

\* the f64 num / den
F64(num, den) ==
    IF den = 0 THEN [num |-> Sign(num), den |-> 0]
    ELSE LET g == Gcd(Abs(num), Abs(den))
             sg == IF den < 0 THEN -1 ELSE 1
         IN  [num |-> (sg * num) \div g, den |-> Abs(den) \div g]

\* i16::MIN <= i <= i16::MAX, and the same for i32
fits_in_i16(i) == i >= -I16Max - 1 /\ i <= I16Max
fits_in_i32(i) == i >= -I32Max - 1 /\ i <= I32Max

\* LInt::new
LInt_new(i) ==
    IF fits_in_i16(i) THEN [kind |-> "Small", num |-> i, den |-> 1]
    ELSE IF fits_in_i32(i) THEN [kind |-> "Big", num |-> i, den |-> 1]
    ELSE [kind |-> "Long", num |-> i, den |-> 1]

\* n.fract() == 0.0
is_integer(f) == f.den = 1

\* LNum::new
LNum_new(f) ==
    IF is_integer(f) THEN LInt_new(f.num)
    ELSE [kind |-> "Float", num |-> f.num, den |-> f.den]

\* LNum::real_val
real_val(n) == [num |-> n.num, den |-> n.den]

F64Add(a, b) ==
    IF a.den = 0 \/ b.den = 0
    THEN IF a.den = 0 /\ b.den = 0
         THEN (IF a.num = b.num THEN a ELSE F64(0, 0))
         ELSE (IF a.den = 0 THEN a ELSE b)
    ELSE F64((a.num * b.den) + (b.num * a.den), a.den * b.den)

F64Sub(a, b) == F64Add(a, [num |-> -b.num, den |-> b.den])
F64Mul(a, b) ==
    IF a.den = 0 \/ b.den = 0
    THEN F64(Sign(a.num) * Sign(b.num), 0)
    ELSE F64(a.num * b.num, a.den * b.den)
F64Div(a, b) ==
    IF b.den = 0 THEN (IF a.den = 0 THEN F64(0, 0) ELSE F64(0, 1))
    ELSE IF a.den = 0 THEN F64(a.num * (IF b.num < 0 THEN -1 ELSE 1), 0)
    ELSE IF b.num = 0 THEN F64(Sign(a.num), 0)
    ELSE F64(a.num * b.den, a.den * b.num)
IsNaN(a) == a.den = 0 /\ a.num = 0
F64Less(a, b) ==
    IF IsNaN(a) \/ IsNaN(b) THEN FALSE
    ELSE IF a.den = 0 /\ b.den = 0 THEN a.num < b.num
    ELSE IF a.den = 0 THEN a.num < 0
    ELSE IF b.den = 0 THEN b.num > 0
    ELSE (a.num * b.den) < (b.num * a.den)

\* LInt::negate / LNum::negate: the negation in the variant's own width; the
\* minimum of the width has no negation (overflow)
negate_overflows(n) ==
    \/ n.kind = "Small" /\ n.num = -I16Max - 1
    \/ n.kind = "Big" /\ n.num = -I32Max - 1
\* without overflow checks the negation of the minimum wraps to the minimum
LNum_negate(n) == IF negate_overflows(n) THEN n ELSE [n EXCEPT !.num = -n.num]

\* utils.rs strtod_manual: the value of the leading digits of the input
RECURSIVE DigitsValue(_, _, _)
DigitsValue(src, i, acc) ==
    IF i <= Len(src) /\ is_digit(src[i])
    THEN DigitsValue(src, i + 1, (acc * 10) + (IndexOf(DigitChars, src[i]) - 1))
    ELSE acc
strtod_manual(src, start) == LNum_new(F64(DigitsValue(src, start + 1, 0), 1))

(***************************************************************************)
(* value.rs: Value is [tag, v]; FinalValue is [value, is_final]            *)
(***************************************************************************)
NilValue == [tag |-> "Nil", v |-> 0]
BoolValue(b) == [tag |-> "Bool", v |-> b]
NumberValue(n) == [tag |-> "Number", v |-> n]
StringValue(chars) == [tag |-> "String", v |-> chars]

FinalValue(value, is_final) == [value |-> value, is_final |-> is_final]
\* FinalValue::default_new: a value that is not final
default_new(value) == FinalValue(value, FALSE)
\* FinalValue::default()
DefaultFinalValue == FinalValue(NilValue, FALSE)

is_number(value) == value.tag = "Number"
is_string(value) == value.tag = "String"
is_same_type(a, b) == a.tag = b.tag

(***************************************************************************)
(* core.rs: Table is [count, entries], entries a sequence of [key, value]  *)
(***************************************************************************)
Table_init == [count |-> 0, entries |-> <<>>]

Table_free(t) == [count |-> 0, entries |-> <<>>]

has_entry(t, key) == \E i \in 1..Len(t.entries) : t.entries[i].key = key

FirstIndex(t, key) ==
    CHOOSE i \in 1..Len(t.entries) :
        /\ t.entries[i].key = key
        /\ \A j \in 1..(i - 1) : t.entries[j].key # key

\* Table::set; its result is_new_key is ~has_entry(t, key)
Table_set(t, key, value) ==
    IF ~has_entry(t, key)
    THEN [count |-> t.count + 1,
          entries |-> Append(t.entries, [key |-> key, value |-> value])]
    ELSE [t EXCEPT !.entries[FirstIndex(t, key)].value = value]

\* Table::get is Some
Table_has(t, key) == t.count # 0 /\ has_entry(t, key)
Table_get(t, key) == t.entries[FirstIndex(t, key)].value


\* Table::delete
Table_delete(t, key) ==
    IF t.count = 0 THEN t
    ELSE IF has_entry(t, key)
         THEN [t EXCEPT !.entries = SubSeq(@, 1, FirstIndex(t, key) - 1)
                                       \o SubSeq(@, FirstIndex(t, key) + 1, Len(@))]
         ELSE t

(***************************************************************************)
(* chunk.rs                                                                *)
(***************************************************************************)
OpConstant == 0
OpNil == 1
OpTrue == 2
OpFalse == 3
OpEqual == 4
OpGreater == 5
OpLess == 6
OpAdd == 7
OpSubtract == 8
OpMultiply == 9
OpDivide == 10
OpNot == 11
OpNegate == 12
OpReturn == 13
OpPrint == 14
OpPop == 15
OpDefineGlobal == 16
OpGetGlobal == 17
OpSetGlobal == 18
OpGetLocal == 19
OpSetLocal == 20
OpJumpIfFalse == 21
\* OpCode::Jump and OpCode::Loop, the two opcodes after JumpIfFalse
OpJump == 22
OpLoop == 23

Chunk_new == [code |-> <<>>, lines |-> <<>>, constants |-> <<>>]

write_chunk(chunk, byte, line) ==
    [chunk EXCEPT !.code = Append(@, byte), !.lines = Append(@, line)]

\* add_constants: the new pool; the index returned is Len(constants) - 1
add_constants(chunk, value, is_final) ==
    [chunk EXCEPT !.constants = Append(@, FinalValue(value, is_final))]

Chunk_free(chunk) == [code |-> <<>>, lines |-> <<>>, constants |-> <<>>]

(***************************************************************************)
(* compiler.rs                                                             *)
(* A compiler is [parser, scanner, current, chunk, strings, globals,       *)
(* can_assign] as in the struct, with stderr (the diagnostics written) and *)
(* abort (a panic has unwound the call).                                   *)
(***************************************************************************)
PrecNone == 0
PrecAssignment == 1
PrecOr == 2
PrecAnd == 3
PrecEquality == 4
PrecComparison == 5
PrecTerm == 6
PrecFactor == 7
PrecUnary == 8
PrecCall == 9
PrecPrimary == 10

\* impl Add<u8> for Precedence
PrecAdd(p, n) == IF p + n <= PrecPrimary THEN p + n ELSE PrecNone

MAX_LOCALS == 255

U8(n) == n % 256
\* `as i8` of a usize
I8(n) == ((n + 128) % 256) - 128

Parser_default ==
    [current |-> DefaultToken, previous |-> DefaultToken,
     had_error |-> FALSE, panic_mode |-> FALSE]

TinyCompiler_new == [locals |-> <<>>, scope_depth |-> 0, is_final |-> FALSE]

Local(name, depth) == [name |-> name, depth |-> depth]

Compiler_new ==
    [parser |-> Parser_default, scanner |-> new_empty,
     current |-> TinyCompiler_new, chunk |-> Chunk_new,
     strings |-> Table_init, globals |-> Table_init,
     can_assign |-> FALSE, stderr |-> <<>>, abort |-> FALSE]

Panic(c) == [c EXCEPT !.abort = TRUE]

\* the bytes token.start[..token.length] of the source being compiled
Lexeme(c, token) ==
    SubSeq(c.scanner.source, token.start + 1, token.start + token.length)

\* the whole slice token.start, which runs to the end of the source
StartSlice(c, token) ==
    SubSeq(c.scanner.source, token.start + 1, Len(c.scanner.source))

Diag(line, message, text) == [line |-> line, message |-> message, text |-> text]

error_at(c, token, message, text) ==
    IF c.abort \/ c.parser.panic_mode THEN c
    ELSE [c EXCEPT !.parser.panic_mode = TRUE,
                   !.parser.had_error = TRUE,
                   !.stderr = Append(@, Diag(token.line, message, text))]

error_at_current(c, message) == error_at(c, c.parser.current, message, <<>>)

error(c, message) == error_at(c, c.parser.previous, message, <<>>)

\* An iteration of the declaration loops scans a token or closes a block that
\* a scanned token opened: they end within 2^LoopBits iterations.
RECURSIVE Bits(_)
Bits(n) == IF n <= 1 THEN 1 ELSE 1 + Bits(n \div 2)

LoopBits(c) == Bits((2 * Len(c.scanner.source)) + 2)

\* A call self.f(..) of advance, parse_precedence, statement, declaration or
\* compile's loop is Call("f", c, precedence), defined after them; the
\* precedence is read by parse_precedence only.
RECURSIVE Call(_, _, _)

\* the loop of advance: scan until a token that is not an Error token; the
\* message reported for an Error token is the slice token.start
RECURSIVE ScanLoop(_)
ScanLoop(c) ==
    LET Scanned(r) ==
            LET c1 == [c EXCEPT !.scanner = r[2], !.parser.current = r[1]]
            IN  IF r[2].abort THEN Panic(c1)
                ELSE IF r[1].token_type # "Error" THEN c1
                ELSE ScanLoop(error_at(c1, r[1], "token.start", StartSlice(c1, r[1])))
    IN  Scanned(scan_token(c.scanner))

advance(c) ==
    IF c.abort THEN c
    ELSE ScanLoop([c EXCEPT !.parser.previous = c.parser.current])

check(c, type) == c.parser.current.token_type = type

consume(c, type, message) ==
    IF check(c, type) THEN Call("advance", c, PrecNone) ELSE error_at_current(c, message)

\* matches: the compiler after the call; the call returned check(c, type)
matches(c, type) == IF check(c, type) THEN Call("advance", c, PrecNone) ELSE c

emit_byte(c, byte) ==
    IF c.abort THEN c
    ELSE [c EXCEPT !.chunk = write_chunk(@, byte, c.parser.previous.line)]

emit_bytes(c, byte1, byte2) == emit_byte(emit_byte(c, byte1), byte2)

\* the offset of Loop without the two bytes of its own operand
emit_loop_short(c, loop_start) ==
    LET offset == Len(c.chunk.code) + 1 - loop_start
    IN  emit_byte(emit_byte(emit_byte(c, OpLoop), (offset \div 256) % 256),
                  offset % 256)

\* `offset as u16 > u16::MAX` is never true: no error is reported
emit_loop(c, loop_start) ==
    LET Offset(c1, offset) ==
            emit_byte(emit_byte(c1, (offset \div 256) % 256), offset % 256)
    IN  Offset(emit_byte(c, OpLoop), (Len(c.chunk.code) - loop_start) + 3)

\* emit_jump: the compiler after the call; it returns Len(code) - 2
emit_jump(c, instruction) == emit_byte(emit_byte(emit_byte(c, instruction), 255), 255)

emit_return(c) == emit_byte(c, OpReturn)

\* make_constant: `constant as u8 > u8::MAX` is never true; the byte returned
\* is U8(Len(constants) - 1) of the compiler after the call
make_constant(c, value) ==
    IF c.abort THEN c
    ELSE [c EXCEPT !.chunk = add_constants(@, value, c.current.is_final)]

LastConstant(c) == U8(Len(c.chunk.constants) - 1)

emit_constant(c, value) ==
    LET Emit(c1) == emit_bytes(c1, OpConstant, LastConstant(c1))
    IN  Emit(make_constant(c, value))

\* patch_jump with the distance measured from the second operand byte
patch_jump_from_operand(c, offset) ==
    IF c.abort THEN c
    ELSE LET jump == (Len(c.chunk.code) - offset) - 1
         IN  [c EXCEPT !.chunk.code[offset + 1] = (jump \div 256) % 256,
                       !.chunk.code[offset + 2] = jump % 256]

\* `jump as u16 > u16::MAX` is never true: no error is reported
patch_jump(c, offset) ==
    IF c.abort THEN c
    ELSE LET jump == (Len(c.chunk.code) - offset) - 2
         IN  [c EXCEPT !.chunk.code[offset + 1] = (jump \div 256) % 256,
                       !.chunk.code[offset + 2] = jump % 256]

end_compiler(c) == emit_return(c)

begin_scope(c) ==
    IF c.abort THEN c ELSE [c EXCEPT !.current.scope_depth = @ + 1]

\* the number of locals the while loop of end_scope leaves: it drops locals
\* from the last one down, until one whose depth is not above the scope's
KeptLocals(c) ==
    CHOOSE m \in 0..Len(c.current.locals) :
        /\ m = 0 \/ c.current.locals[m].depth <= I8(c.current.scope_depth)
        /\ \A j \in (m + 1)..Len(c.current.locals) :
               c.current.locals[j].depth > I8(c.current.scope_depth)

\* the while loop of end_scope: one emit_byte(OpPop) for each local dropped
PopLocals(c) ==
    LET dropped == Len(c.current.locals) - KeptLocals(c)
    IN  [c EXCEPT !.chunk.code = @ \o [i \in 1..dropped |-> OpPop],
                  !.chunk.lines = @ \o [i \in 1..dropped |-> c.parser.previous.line],
                  !.current.locals = SubSeq(@, 1, KeptLocals(c))]

\* scope_depth is a usize: the decrement of 0 overflows
end_scope(c) ==
    IF c.abort THEN c
    ELSE IF c.current.scope_depth = 0 THEN Panic(c)
    ELSE PopLocals([c EXCEPT !.current.scope_depth = @ - 1])

identifier_constant(c, name) == make_constant(c, StringValue(name))

\* resolve_local: the index of the first local of that name as an i8, or -1
FirstLocal(c, name) ==
    CHOOSE i \in 1..Len(c.current.locals) :
        /\ c.current.locals[i].name = name
        /\ \A j \in 1..(i - 1) : c.current.locals[j].name # name

HasLocal(c, name) == \E i \in 1..Len(c.current.locals) : c.current.locals[i].name = name

resolve_local_index(c, name) ==
    IF HasLocal(c, name) THEN I8(FirstLocal(c, name) - 1) ELSE -1

resolve_local(c, name) ==
    IF HasLocal(c, name) /\ c.current.locals[FirstLocal(c, name)].depth = -1
    THEN error(c, "Can't reqad local variable in its own initializer.")
    ELSE c

add_local(c, name) ==
    LET Add(c1) ==
            IF c1.abort THEN c1
            ELSE [c1 EXCEPT !.current.locals = Append(@, Local(name, -1))]
    IN  Add(IF Len(c.current.locals) = MAX_LOCALS
            THEN error(c, "Too many local variables in function.")
            ELSE c)

\* the local at which the loop of declare_variable breaks: the first one of
\* an enclosing scope, counting from the first local up
IsOuterLocal(c, i) ==
    /\ c.current.locals[i].depth # -1
    /\ c.current.locals[i].depth < I8(c.current.scope_depth)

\* the loop of declare_variable: an error for each local of that name before
\* the break; the errors after the first are suppressed by panic_mode
DeclareLoop(c, name) ==
    IF \E i \in 1..Len(c.current.locals) :
          /\ c.current.locals[i].name = name
          /\ \A j \in 1..i : ~IsOuterLocal(c, j)
    THEN error(c, "Already a variable with this name in this scope.")
    ELSE c

declare_variable(c) ==
    IF c.abort \/ c.current.scope_depth = 0 THEN c
    ELSE add_local(DeclareLoop(c, Lexeme(c, c.parser.previous)),
                   Lexeme(c, c.parser.previous))

\* parse_variable: the compiler after the call; the byte it returns is 0 in
\* a local scope and LastConstant of the result at global scope
parse_variable(c, message) ==
    LET Name(c1) ==
            IF c1.abort \/ c1.current.scope_depth > 0 THEN c1
            ELSE identifier_constant(c1, Lexeme(c1, c1.parser.previous))
    IN  Name(declare_variable(consume(c, "Identifier", message)))

\* locals[local_count - 1] with local_count = 0 is an index overflow
mark_initialized(c) ==
    IF c.abort THEN c
    ELSE IF Len(c.current.locals) = 0 THEN Panic(c)
    ELSE [c EXCEPT !.current.locals[Len(c.current.locals)].depth =
                      I8(c.current.scope_depth)]

define_variable(c, global) ==
    IF c.current.scope_depth > 0 THEN mark_initialized(c)
    ELSE emit_bytes(c, OpDefineGlobal, global)

(***************************************************************************)
(* The parse rules (Compiler::rules) and the recursive-descent functions   *)
(***************************************************************************)
Rule(prefix, infix, precedence) ==
    [prefix |-> prefix, infix |-> infix, precedence |-> precedence]

\* the token types that are keys of the rules map
RuleKeys ==
    {"LeftParen", "RightParen", "LeftBrace", "RightBrace", "Comma", "Dot",
     "Minus", "Plus", "Semicolon", "Slash", "Star", "Bang", "BangEqual",
     "Equal", "EqualEqual", "Greater", "GreaterEqual", "Less", "LessEqual",
     "Identifier", "String", "Number", "And", "Class", "Else", "False",
     "For", "Fun", "If", "Nil", "Or", "Print", "Return", "Super", "This",
     "True", "Let", "While", "Error", "Eof"}

rules(type) ==
    CASE type = "LeftParen" -> Rule("grouping", "None", PrecNone)
      [] type = "Minus" -> Rule("unary", "binary", PrecTerm)
      [] type = "Plus" -> Rule("None", "binary", PrecTerm)
      [] type = "Slash" -> Rule("None", "binary", PrecFactor)
      [] type = "Star" -> Rule("None", "binary", PrecFactor)
      [] type = "Bang" -> Rule("unary", "None", PrecNone)
      [] type = "BangEqual" -> Rule("None", "binary", PrecEquality)
      [] type = "EqualEqual" -> Rule("None", "binary", PrecEquality)
      [] type = "Greater" -> Rule("None", "binary", PrecComparison)
      [] type = "GreaterEqual" -> Rule("None", "binary", PrecComparison)
      [] type = "Less" -> Rule("None", "binary", PrecComparison)
      [] type = "LessEqual" -> Rule("None", "binary", PrecComparison)
      [] type = "Identifier" -> Rule("variable", "None", PrecNone)
      [] type = "String" -> Rule("string", "None", PrecNone)
      [] type = "Number" -> Rule("number", "None", PrecNone)
      [] type = "And" -> Rule("None", "and", PrecAnd)
      [] type = "False" -> Rule("literal", "None", PrecNone)
      [] type = "Nil" -> Rule("literal", "None", PrecNone)
      [] type = "Or" -> Rule("None", "or", PrecOr)
      [] type = "True" -> Rule("literal", "None", PrecNone)
      [] OTHER -> Rule("None", "None", PrecNone)

\* get_rule unwraps the lookup: a token type that is no key panics
get_rule_panics(type) == type \notin RuleKeys
get_rule(type) == rules(type)

expression(c) == Call("parse_precedence", c, PrecAssignment)

literal(c) ==
    LET t == c.parser.previous.token_type
    IN  CASE t = "False" -> emit_byte(c, OpFalse)
          [] t = "Nil" -> emit_byte(c, OpNil)
          [] t = "True" -> emit_byte(c, OpTrue)
          [] OTHER -> c

grouping(c) == consume(expression(c), "RightParen", "Expect ')' after expression.")

number(c) ==
    emit_constant(c, NumberValue(strtod_manual(c.scanner.source,
                                               c.parser.previous.start)))

\* the bytes between the quotes: previous.start[1..][..length - 2]
string(c) ==
    LET Intern(chars) ==
            emit_constant([c EXCEPT !.strings = Table_set(@, hash_str(chars), NilValue)],
                          StringValue(chars))
    IN  IF c.abort THEN c
        ELSE Intern(SubSeq(c.scanner.source, c.parser.previous.start + 2,
                           (c.parser.previous.start + c.parser.previous.length) - 1))

binary_emit(c, operator_type) ==
    CASE operator_type = "BangEqual" -> emit_bytes(c, OpEqual, OpNot)
      [] operator_type = "EqualEqual" -> emit_byte(c, OpEqual)
      [] operator_type = "Greater" -> emit_byte(c, OpGreater)
      [] operator_type = "GreaterEqual" -> emit_bytes(c, OpLess, OpNot)
      [] operator_type = "Less" -> emit_byte(c, OpLess)
      [] operator_type = "LessEqual" -> emit_bytes(c, OpGreater, OpNot)
      [] operator_type = "Plus" -> emit_byte(c, OpAdd)
      [] operator_type = "Minus" -> emit_byte(c, OpSubtract)
      [] operator_type = "Star" -> emit_byte(c, OpMultiply)
      [] operator_type = "Slash" -> emit_byte(c, OpDivide)
      [] OTHER -> c

\* binary with the right operand parsed at the operator's own precedence
binary_same_precedence(c) ==
    binary_emit(Call("parse_precedence", c,
                     get_rule(c.parser.previous.token_type).precedence),
                c.parser.previous.token_type)

binary(c) ==
    binary_emit(Call("parse_precedence", c,
                     PrecAdd(get_rule(c.parser.previous.token_type).precedence, 1)),
                c.parser.previous.token_type)

unary(c) ==
    LET Emit(c1, operator_type) ==
            CASE operator_type = "Bang" -> emit_byte(c1, OpNot)
              [] operator_type = "Minus" -> emit_byte(c1, OpNegate)
              [] OTHER -> c1
    IN  Emit(Call("parse_precedence", c, PrecAssignment),
             c.parser.previous.token_type)

or(c) ==
    LET Right(c3, end_jump) == patch_jump(Call("parse_precedence", c3, PrecOr), end_jump)
        End(c2, else_jump) ==
            Right(emit_byte(patch_jump(c2, else_jump), OpPop),
                  Len(c2.chunk.code) - 2)
        Else(c1) == End(emit_jump(c1, OpJump), Len(c1.chunk.code) - 2)
    IN  Else(emit_jump(c, OpJumpIfFalse))

\* the jump over the right operand without the Pop of the left one
and_without_pop(c) ==
    LET End(c1) ==
            patch_jump(Call("parse_precedence", c1, PrecAnd), Len(c1.chunk.code) - 2)
    IN  End(emit_jump(c, OpJumpIfFalse))

and(c) ==
    LET Right(c1, end_jump) ==
            patch_jump(Call("parse_precedence", emit_byte(c1, OpPop), PrecAnd),
                       end_jump)
        End(c1) == Right(c1, Len(c1.chunk.code) - 2)
    IN  End(emit_jump(c, OpJumpIfFalse))

named_variable(c, name) ==
    LET local == resolve_local_index(c, name)
        Emit(c2, arg) ==
            IF c2.can_assign /\ check(c2, "Equal")
            THEN emit_bytes(expression(Call("advance", c2, PrecNone)),
                            IF local # -1 THEN OpSetLocal ELSE OpSetGlobal, arg)
            ELSE emit_bytes(c2, IF local # -1 THEN OpGetLocal ELSE OpGetGlobal, arg)
        Arg(c2) == Emit(c2, IF local # -1 THEN U8(local + 256) ELSE LastConstant(c2))
        Global(c1) == Arg(IF local # -1 THEN c1 ELSE identifier_constant(c1, name))
    IN  Global(resolve_local(c, name))

variable(c) == named_variable(c, Lexeme(c, c.parser.previous))

Prefix(fn, c) ==
    CASE fn = "grouping" -> grouping(c)
      [] fn = "unary" -> unary(c)
      [] fn = "variable" -> variable(c)
      [] fn = "string" -> string(c)
      [] fn = "number" -> number(c)
      [] fn = "literal" -> literal(c)
      [] OTHER -> c

Infix(fn, c) ==
    CASE fn = "binary" -> binary(c)
      [] fn = "and" -> and(c)
      [] fn = "or" -> or(c)
      [] OTHER -> c

\* the while loop of parse_precedence
RECURSIVE InfixLoop(_, _)
InfixLoop(c, precedence) ==
    IF c.abort THEN c
    ELSE IF get_rule_panics(c.parser.current.token_type) THEN Panic(c)
    ELSE IF precedence <= get_rule(c.parser.current.token_type).precedence
    THEN LET Target(c2) ==
                 InfixLoop(IF c2.can_assign /\ check(c2, "Equal")
                           THEN error(Call("advance", c2, PrecNone), "Invalid assignment target.")
                           ELSE c2,
                           precedence)
             Operator(c1) ==
                 IF c1.abort THEN c1
                 ELSE Target(Infix(get_rule(c1.parser.previous.token_type).infix, c1))
         IN  Operator(Call("advance", c, PrecNone))
    ELSE c

parse_precedence(c, precedence) ==
    IF c.abort THEN c
    ELSE LET Operand(c1) ==
                 IF c1.abort THEN c1
                 ELSE IF get_rule_panics(c1.parser.previous.token_type) THEN Panic(c1)
                 ELSE IF get_rule(c1.parser.previous.token_type).prefix # "None"
                 THEN InfixLoop(
                        Prefix(get_rule(c1.parser.previous.token_type).prefix,
                               [c1 EXCEPT !.can_assign =
                                            (precedence <= PrecAssignment)]),
                        precedence)
                 ELSE error(c1, "Expect expression.")
         IN  Operand(Call("advance", c, PrecNone))

\* the loop of block, defined with the loop of compile below
RECURSIVE Loop(_, _, _)
BlockLoop(c) == Loop([c |-> c, open |-> 0, done |-> FALSE], FALSE, LoopBits(c)).c

block(c) == consume(BlockLoop(c), "RightBrace", "Expect '}' after block.")

var_declaration(c) ==
    LET Initializer(c2, global) ==
            define_variable(
              consume(IF check(c2, "Equal") THEN expression(Call("advance", c2, PrecNone))
                      ELSE emit_byte(c2, OpNil),
                      "Semicolon", "Expect ';' after variable declaration."),
              global)
        Name(c2) ==
            Initializer(c2, IF c2.current.scope_depth > 0 THEN 0
                            ELSE LastConstant(c2))
        Final(c1) == Name(parse_variable(c1, "Expect variable name."))
    IN  IF c.abort THEN c
        ELSE Final([matches(c, "Final") EXCEPT
                      !.current.is_final = check(c, "Final")])

expression_statement(c) ==
    emit_byte(consume(expression(c), "Semicolon", "Expect ';' after expression."),
              OpPop)

print_statement(c) ==
    emit_byte(consume(expression(c), "Semicolon", "Expect ';' after value."),
              OpPrint)

\* for_statement with the guard of the exit jump turned round
for_statement_unpatched(c) ==
    LET Exit(c5, exit_jump) ==
            end_scope(IF exit_jump = 0 THEN emit_byte(c5, OpPop) ELSE c5)
        Body(c4, loop_start, exit_jump) ==
            Exit(emit_loop(Call("statement", c4, PrecNone), loop_start), exit_jump)
        Increment(c3, loop_start, exit_jump) ==
            IF ~check(c3, "RightParen")
            THEN Body(patch_jump(
                        emit_loop(
                          consume(emit_byte(expression(emit_jump(c3, OpJump)), OpPop),
                                  "RightParen", "Expect ')' after for clauses."),
                          loop_start),
                        Len(c3.chunk.code) + 1),
                      Len(c3.chunk.code) + 3, exit_jump)
            ELSE Body(Call("advance", c3, PrecNone), loop_start, exit_jump)
        Exits(c3, loop_start) == Increment(c3, loop_start, Len(c3.chunk.code) - 3)
        Condition(c2) ==
            IF ~check(c2, "Semicolon")
            THEN Exits(emit_byte(
                         emit_jump(consume(expression(c2), "Semicolon",
                                           "Expect ';' after loop condition."),
                                   OpJumpIfFalse),
                         OpPop),
                       Len(c2.chunk.code))
            ELSE Increment(Call("advance", c2, PrecNone), Len(c2.chunk.code), 0)
        Initializer(c1) ==
            Condition(IF check(c1, "Semicolon") THEN Call("advance", c1, PrecNone)
                      ELSE IF check(c1, "Let") THEN var_declaration(Call("advance", c1, PrecNone))
                      ELSE expression_statement(c1))
    IN  Initializer(consume(begin_scope(c), "LeftParen", "Expect '(' after 'for'."))

for_statement(c) ==
    LET Exit(c5, exit_jump) ==
            end_scope(IF exit_jump # 0
                      THEN emit_byte(patch_jump(c5, exit_jump), OpPop)
                      ELSE c5)
        Body(c4, loop_start, exit_jump) ==
            Exit(emit_loop(Call("statement", c4, PrecNone), loop_start), exit_jump)
        Increment(c3, loop_start, exit_jump) ==
            IF ~check(c3, "RightParen")
            THEN Body(patch_jump(
                        emit_loop(
                          consume(emit_byte(expression(emit_jump(c3, OpJump)), OpPop),
                                  "RightParen", "Expect ')' after for clauses."),
                          loop_start),
                        Len(c3.chunk.code) + 1),
                      Len(c3.chunk.code) + 3, exit_jump)
            ELSE Body(Call("advance", c3, PrecNone), loop_start, exit_jump)
        Exits(c3, loop_start) == Increment(c3, loop_start, Len(c3.chunk.code) - 3)
        Condition(c2) ==
            IF ~check(c2, "Semicolon")
            THEN Exits(emit_byte(
                         emit_jump(consume(expression(c2), "Semicolon",
                                           "Expect ';' after loop condition."),
                                   OpJumpIfFalse),
                         OpPop),
                       Len(c2.chunk.code))
            ELSE Increment(Call("advance", c2, PrecNone), Len(c2.chunk.code), 0)
        Initializer(c1) ==
            Condition(IF check(c1, "Semicolon") THEN Call("advance", c1, PrecNone)
                      ELSE IF check(c1, "Let") THEN var_declaration(Call("advance", c1, PrecNone))
                      ELSE expression_statement(c1))
    IN  Initializer(consume(begin_scope(c), "LeftParen", "Expect '(' after 'for'."))

if_statement(c) ==
    LET Else(c5, else_jump) ==
            patch_jump(IF check(c5, "Else")
                       THEN Call("statement", Call("advance", c5, PrecNone), PrecNone) ELSE c5,
                       else_jump)
        Patch(c4, then_jump) ==
            Else(emit_byte(patch_jump(c4, then_jump), OpPop), Len(c4.chunk.code) - 2)
        Then(c2) ==
            Patch(emit_jump(Call("statement", emit_byte(c2, OpPop), PrecNone), OpJump),
                  Len(c2.chunk.code) - 2)
    IN  Then(emit_jump(
               consume(expression(consume(c, "LeftParen", "Expect '(' after 'if'.")),
                       "RightParen", "Expect ')' after condition."),
               OpJumpIfFalse))

while_statement(c) ==
    LET Exit(c3, exit_jump) == emit_byte(patch_jump(c3, exit_jump), OpPop)
        Body(c2) ==
            Exit(emit_loop(Call("statement", emit_byte(c2, OpPop), PrecNone),
                           Len(c.chunk.code)),
                 Len(c2.chunk.code) - 2)
    IN  Body(emit_jump(
               consume(expression(consume(c, "LeftParen", "Expect '(' after 'while'.")),
                       "RightParen", "Expect ')' after condition."),
               OpJumpIfFalse))

\* the token types at which the loop of synchronize goes on to advance
SyncKeywords == {"Class", "Fun", "Let", "For", "If", "While", "Print", "Return"}

RECURSIVE SyncLoop(_)
SyncLoop(c) ==
    IF c.abort THEN c
    ELSE IF c.parser.current.token_type # "Eof"
    THEN IF c.parser.previous.token_type = "Semicolon" THEN c
         ELSE IF c.parser.current.token_type \in SyncKeywords
              THEN SyncLoop(Call("advance", c, PrecNone))
              ELSE c
    ELSE c

synchronize(c) == SyncLoop([c EXCEPT !.parser.panic_mode = FALSE])

statement(c) ==
    IF c.abort THEN c
    ELSE IF check(c, "Print") THEN print_statement(Call("advance", c, PrecNone))
    ELSE IF check(c, "For") THEN for_statement(Call("advance", c, PrecNone))
    ELSE IF check(c, "If") THEN if_statement(Call("advance", c, PrecNone))
    ELSE IF check(c, "While") THEN while_statement(Call("advance", c, PrecNone))
    ELSE IF check(c, "LeftBrace")
         THEN end_scope(block(begin_scope(Call("advance", c, PrecNone))))
    ELSE expression_statement(c)

\* the end of declaration: `if self.parser.panic_mode { self.synchronize() }`
Recover(c) ==
    IF c.abort THEN c
    ELSE IF c.parser.panic_mode THEN synchronize(c) ELSE c

declaration(c) ==
    IF c.abort THEN c
    ELSE Recover(IF check(c, "Let") THEN var_declaration(Call("advance", c, PrecNone))
                 ELSE Call("statement", c, PrecNone))

(***************************************************************************)
(* The loops `while !self.matches(Eof) { self.declaration() }` of compile  *)
(* (top) and `while !check(RightBrace) && !check(Eof) { declaration() }`   *)
(* of block run as one loop over [c, open, done].  A block statement met   *)
(* by the loop itself is not entered by a call of declaration: the loop    *)
(* goes on inside it, open counts the blocks it is inside, and at the end  *)
(* of such a block it does what block, statement and declaration do after  *)
(* their loop (CloseBlock).  Every other declaration, and a block that is  *)
(* the body of an if, while or for, is the call of the source.             *)
(***************************************************************************)
CloseBlock(c) ==
    Recover(end_scope(consume(c, "RightBrace", "Expect '}' after block.")))

LoopStep(l, top) ==
    IF l.c.abort THEN [l EXCEPT !.done = TRUE]
    ELSE IF (l.open > 0 \/ ~top) /\ (check(l.c, "RightBrace") \/ check(l.c, "Eof"))
    THEN IF l.open = 0 THEN [l EXCEPT !.done = TRUE]
         ELSE [l EXCEPT !.c = CloseBlock(@), !.open = @ - 1]
    ELSE IF check(l.c, "Eof")
    THEN [l EXCEPT !.c = Call("advance", @, PrecNone), !.done = TRUE]
    ELSE IF check(l.c, "LeftBrace")
    THEN [l EXCEPT !.c = begin_scope(Call("advance", @, PrecNone)), !.open = @ + 1]
    ELSE [l EXCEPT !.c = Call("declaration", @, PrecNone)]

\* up to 2^k iterations of the loop, as two runs of up to 2^(k-1)
Loop(l, top, k) ==
    IF l.done THEN l
    ELSE IF k = 0 THEN LoopStep(l, top)
    ELSE Loop(Loop(l, top, k - 1), top, k - 1)

\* the loop of compile
CompileLoop(c) == Loop([c |-> c, open |-> 0, done |-> FALSE], TRUE, LoopBits(c)).c

Call(fn, c, precedence) ==
    CASE fn = "advance" -> advance(c)
      [] fn = "compile" -> end_compiler(CompileLoop(Call("advance", c, PrecNone)))
      [] fn = "parse_precedence" -> parse_precedence(c, precedence)
      [] fn = "statement" -> statement(c)
      [] fn = "declaration" -> declaration(c)

\* Compiler::compile: the compiler after the call; it returns ~had_error
compile(c, code) ==
    Call("compile", [c EXCEPT !.scanner = init_scanner(code)], PrecNone)

(***************************************************************************)
(* vm.rs                                                                   *)
(* A VM is [compiler, ip, stack, stack_top, had_error, stdout]; ip is the  *)
(* offset of the pointer into chunk.code; overflow_checks is the build     *)
(* profile (integer overflow panics).  stack holds the slots written       *)
(* so far (every other slot of the array is FinalValue::default()), so a   *)
(* slot above stack_top keeps the value it had.  The objects list is only  *)
(* appended to and is left out.                                            *)
(***************************************************************************)
STACK_MAX == 256

init_vm ==
    [compiler |-> Compiler_new, ip |-> 0, stack |-> <<>>, stack_top |-> 0,
     had_error |-> FALSE, stdout |-> <<>>, overflow_checks |-> TRUE]

\* self.stack[i]
StackAt(v, i) == IF i < Len(v.stack) THEN v.stack[i + 1] ELSE DefaultFinalValue


\* self.stack[i] = value
StackPut(v, i, value) ==
    IF i < Len(v.stack) THEN [v EXCEPT !.stack[i + 1] = value]
    ELSE [v EXCEPT !.stack = (@ \o [k \in 1..(i - Len(@)) |-> DefaultFinalValue])
                                  \o <<value>>]

reset_stack(v) == [v EXCEPT !.stack_top = 0]

Step(v, outcome) == [vm |-> v, outcome |-> outcome]

\* runtime_error: the message and the line of the instruction, then the stack
\* is reset
runtime_error(v, message, text) ==
    reset_stack([v EXCEPT !.compiler.stderr =
                   Append(@, Diag(v.compiler.chunk.lines[v.ip], message, text))])

push_panics(v) == v.stack_top >= STACK_MAX
push(v, value) == [StackPut(v, v.stack_top, value) EXCEPT !.stack_top = @ + 1]

\* pop decrements stack_top and indexes the stack with it
pop_panics(v) == v.stack_top <= 0
pop(v) == [v EXCEPT !.stack_top = @ - 1]

peek_panics(v, distance) == v.stack_top < 1 + distance
peek(v, distance) == StackAt(v, (v.stack_top - 1) - distance)

is_falsey(value) == value.tag = "Nil" \/ (value.tag = "Bool" /\ ~value.v)

\* strings compared as objects, never by their bytes
values_equal_by_identity(a, b) ==
    is_same_type(a, b) /\ a.tag # "String" /\ a.v = b.v

values_equal(a, b) ==
    IF ~is_same_type(a, b) THEN FALSE
    ELSE IF a.tag = "Number" THEN
        \* NaN differs from itself
        IF a.v.kind = "Float" /\ IsNaN(a.v) THEN FALSE ELSE a.v = b.v
    ELSE a.v = b.v

\* binary_op without the had_error flag: run goes on after the diagnostic
binary_op_unflagged(v, op) ==
    IF peek_panics(v, 1) THEN Step(v, "abort")
    ELSE IF ~is_number(peek(v, 0).value) \/ ~is_number(peek(v, 1).value)
    THEN Step(runtime_error(v, "Operands must be numbers.", <<>>), "continue")
    ELSE LET b == real_val(peek(v, 0).value.v)
             a == real_val(peek(v, 1).value.v)
             r == CASE op = "sub" -> NumberValue(LNum_new(F64Sub(a, b)))
                    [] op = "mul" -> NumberValue(LNum_new(F64Mul(a, b)))
                    [] op = "div" -> NumberValue(LNum_new(F64Div(a, b)))
                    [] op = "gt" -> BoolValue(F64Less(b, a))
                    [] op = "lt" -> BoolValue(F64Less(a, b))
         IN  Step(push(pop(pop(v)), default_new(r)), "continue")

\* binary_op, with the f64 operation named by op
binary_op(v, op) ==
    IF peek_panics(v, 1) THEN Step(v, "abort")
    ELSE IF ~is_number(peek(v, 0).value) \/ ~is_number(peek(v, 1).value)
    THEN Step([runtime_error(v, "Operands must be numbers.", <<>>)
                 EXCEPT !.had_error = TRUE], "continue")
    ELSE LET b == real_val(peek(v, 0).value.v)
             a == real_val(peek(v, 1).value.v)
             r == CASE op = "sub" -> NumberValue(LNum_new(F64Sub(a, b)))
                    [] op = "mul" -> NumberValue(LNum_new(F64Mul(a, b)))
                    [] op = "div" -> NumberValue(LNum_new(F64Div(a, b)))
                    [] op = "gt" -> BoolValue(F64Less(b, a))
                    [] op = "lt" -> BoolValue(F64Less(a, b))
         IN  Step(push(pop(pop(v)), default_new(r)), "continue")

concatenate(v) ==
    LET b == peek(v, 0).value
        a == peek(v, 1).value
    IN  push(pop(pop(v)), default_new(StringValue(a.v \o b.v)))

var_final_error(v, final_val) ==
    runtime_error(v, "Variable '{}' is final and cannot be modified.",
                  <<final_val.value>>)

\* the SetGlobal branch of run once the name constant is known not to be final:
\* a speculative set, undone by delete when the key was new
SetGlobal(v, key, name) ==
    IF ~has_entry(v.compiler.globals, key)
    THEN Step(runtime_error(
                [v EXCEPT !.compiler.globals =
                   Table_delete(Table_set(@, key, peek(v, 0).value), key)],
                "Undefined variable {}.", <<name>>),
              "InterpretRuntimeError")
    ELSE Step([v EXCEPT !.compiler.globals = Table_set(@, key, peek(v, 0).value)],
              "continue")

Code(v) == v.compiler.chunk.code
Constants(v) == v.compiler.chunk.constants

\* one iteration of the loop of run, after the opcode byte has been read
Dispatch(v, instruction) ==
    LET operand == Code(v)[v.ip + 1]
        v1 == [v EXCEPT !.ip = @ + 1]
        short == (Code(v)[v.ip + 1] * 256) + Code(v)[v.ip + 2]
        v2 == [v EXCEPT !.ip = @ + 2]
        has_constant == operand < Len(Constants(v))
        constant == Constants(v)[operand + 1]
    IN  CASE instruction = OpConstant ->
               IF ~has_constant \/ push_panics(v1) THEN Step(v1, "abort")
               ELSE Step(push(v1, FinalValue(constant.value, constant.is_final)),
                         "continue")
          [] instruction = OpNegate ->
               IF peek_panics(v, 0) THEN Step(v, "abort")
               ELSE IF ~is_number(peek(v, 0).value)
               THEN Step(runtime_error(v, "Operand must be a number.", <<>>),
                         "InterpretRuntimeError")
               ELSE IF negate_overflows(peek(v, 0).value.v) /\ v.overflow_checks
               THEN Step(v, "abort")
               ELSE Step(push(pop(v), default_new(
                           NumberValue(LNum_negate(peek(v, 0).value.v)))),
                         "continue")
          [] instruction = OpAdd ->
               IF peek_panics(v, 0) THEN Step(v, "abort")
               ELSE IF (is_string(peek(v, 0).value) \/ is_number(peek(v, 0).value))
                       /\ peek_panics(v, 1)
               THEN Step(v, "abort")
               ELSE IF is_string(peek(v, 0).value) /\ is_string(peek(v, 1).value)
               THEN Step(concatenate(v), "continue")
               ELSE IF is_number(peek(v, 0).value) /\ is_number(peek(v, 1).value)
               THEN Step(push(pop(pop(v)), default_new(NumberValue(LNum_new(
                           F64Add(real_val(peek(v, 1).value.v),
                                  real_val(peek(v, 0).value.v)))))),
                         "continue")
               ELSE Step(runtime_error(v,
                           "Operands must be two numbers or two strings.", <<>>),
                         "InterpretRuntimeError")
          [] instruction = OpSubtract -> binary_op(v, "sub")
          [] instruction = OpMultiply -> binary_op(v, "mul")
          [] instruction = OpDivide -> binary_op(v, "div")
          [] instruction = OpNot ->
               IF pop_panics(v) THEN Step(v, "abort")
               ELSE Step(push(pop(v), default_new(BoolValue(
                           is_falsey(peek(v, 0).value)))), "continue")
          [] instruction = OpNil ->
               IF push_panics(v) THEN Step(v, "abort")
               ELSE Step(push(v, default_new(NilValue)), "continue")
          [] instruction = OpTrue ->
               IF push_panics(v) THEN Step(v, "abort")
               ELSE Step(push(v, default_new(BoolValue(TRUE))), "continue")
          [] instruction = OpFalse ->
               IF push_panics(v) THEN Step(v, "abort")
               ELSE Step(push(v, default_new(BoolValue(FALSE))), "continue")
          [] instruction = OpEqual ->
               IF v.stack_top < 2 THEN Step(v, "abort")
               ELSE Step(push(pop(pop(v)), default_new(BoolValue(
                           values_equal(peek(v, 0).value, peek(v, 1).value)))),
                         "continue")
          [] instruction = OpGreater -> binary_op(v, "gt")
          [] instruction = OpLess -> binary_op(v, "lt")
          [] instruction = OpReturn -> Step(v, "InterpretOk")
          [] instruction = OpPrint ->
               IF pop_panics(v) THEN Step(v, "abort")
               ELSE Step([pop(v) EXCEPT !.stdout = Append(@, peek(v, 0).value)],
                         "continue")
          [] instruction = OpPop ->
               IF pop_panics(v) THEN Step(v, "abort")
               ELSE Step(pop(v), "continue")
          [] instruction = OpDefineGlobal ->
               IF ~has_constant THEN Step(v1, "abort")
               ELSE IF ~is_string(constant.value)
               THEN Step(runtime_error(v1, "Constant is not a string.", <<>>),
                         "InterpretRuntimeError")
               ELSE IF peek_panics(v1, 0) THEN Step(v1, "abort")
               ELSE Step(pop([v1 EXCEPT !.compiler.globals =
                                Table_set(@, hash_str(constant.value.v),
                                          peek(v1, 0).value)]),
                         "continue")
          [] instruction = OpGetGlobal ->
               IF ~has_constant THEN Step(v1, "abort")
               ELSE IF ~is_string(constant.value)
               THEN Step(runtime_error(v1, "Constant is not a string.", <<>>),
                         "InterpretRuntimeError")
               ELSE IF ~Table_has(v1.compiler.globals, hash_str(constant.value.v))
               THEN Step(runtime_error(v1, "Undefined variable {}.",
                                       <<constant.value>>),
                         "InterpretRuntimeError")
               ELSE IF push_panics(v1) THEN Step(v1, "abort")
               ELSE Step(push(v1, FinalValue(
                           Table_get(v1.compiler.globals,
                                     hash_str(constant.value.v)),
                           constant.is_final)),
                         "continue")
          [] instruction = OpSetGlobal ->
               IF ~has_constant THEN Step(v1, "abort")
               ELSE IF constant.is_final
               THEN Step(var_final_error(v1, constant), "InterpretRuntimeError")
               ELSE IF ~is_string(constant.value) THEN Step(v1, "continue")
               ELSE IF peek_panics(v1, 0) THEN Step(v1, "abort")
               ELSE SetGlobal(v1, hash_str(constant.value.v), constant.value)
          [] instruction = OpSetLocal ->
               IF peek_panics(v1, 0) THEN Step(v1, "abort")
               ELSE IF peek(v1, 0).is_final
               THEN Step(var_final_error(v1, peek(v1, 0)), "InterpretRuntimeError")
               ELSE Step(StackPut(v1, operand, peek(v1, 0)), "continue")
          [] instruction = OpGetLocal ->
               IF push_panics(v1) THEN Step(v1, "abort")
               ELSE Step(push(v1, StackAt(v1, operand)), "continue")
          [] instruction = OpJump ->
               Step([v2 EXCEPT !.ip = @ + short], "continue")
          [] instruction = OpJumpIfFalse ->
               IF peek_panics(v2, 0) THEN Step(v2, "abort")
               ELSE IF is_falsey(peek(v2, 0).value)
               THEN Step([v2 EXCEPT !.ip = @ + short], "continue")
               ELSE Step(v2, "continue")
          [] instruction = OpLoop ->
               Step([v2 EXCEPT !.ip = @ - short], "continue")
          [] OTHER -> Step(v, "InterpretRuntimeError")

\* one iteration of the loop of run
RunStep(v) ==
    IF v.had_error
    THEN Step([v EXCEPT !.had_error = FALSE], "InterpretRuntimeError")
    ELSE IF v.ip >= Len(Code(v)) THEN Step(v, "abort")
    ELSE Dispatch([v EXCEPT !.ip = @ + 1], Code(v)[v.ip + 1])

free_vm(v) ==
    [v EXCEPT !.ip = 0, !.stack = <<>>, !.stack_top = 0, !.had_error = FALSE,
              !.compiler.chunk = Chunk_free(@),
              !.compiler.globals = Table_free(@),
              !.compiler.strings = Table_free(@)]

(***************************************************************************)
(* Source texts                                                            *)
(***************************************************************************)
\* the bytes of a word of source text
Chars(w) ==
    CASE w = "let" -> <<"l","e","t">>
      [] w = "var" -> <<"v","a","r">>
      [] w = "final" -> <<"f","i","n","a","l">>
      [] w = "print" -> <<"p","r","i","n","t">>
      [] w = "if" -> <<"i","f">>
      [] w = "else" -> <<"e","l","s","e">>
      [] w = "while" -> <<"w","h","i","l","e">>
      [] w = "for" -> <<"f","o","r">>
      [] w = "and" -> <<"a","n","d">>
      [] w = "or" -> <<"o","r">>
      [] w = "true" -> <<"t","r","u","e">>
      [] w = "false" -> <<"f","a","l","s","e">>
      [] w = "nil" -> <<"n","i","l">>
      [] w = "==" -> <<"=","=">>
      [] w = "!=" -> <<"!","=">>
      [] w = "<=" -> <<"<","=">>
      [] w = ">=" -> <<">","=">>
      [] w = "\"s\"" -> <<QUOTE,"s",QUOTE>>
      [] w = "\"t\"" -> <<QUOTE,"t",QUOTE>>
      [] w = "zinke" -> <<"z","i","n","k","e">>
      [] w = "altarage" -> <<"a","l","t","a","r","a","g","e">>
      [] OTHER -> <<w>>

\* the words separated by single spaces
RECURSIVE Src(_)
Src(words) ==
    IF Len(words) = 0 THEN <<>>
    ELSE IF Len(words) = 1 THEN Chars(words[1])
    ELSE (Chars(words[1]) \o <<" ">>) \o Src(Tail(words))

(***************************************************************************)
(* Input programs: each pool is a family of source texts, and a session is *)
(* up to CallBound(pool) calls of interpret on one VM                      *)
(***************************************************************************)
MaxStmts == 2
MaxCalls == 2
MaxLen == 3

\* the i8 of Local.depth
I8Max == 127

\* pool "session": statements at global scope.  The names zinke and altarage
\* have the same hash_str.
GlobalStmts ==
    { <<"let", "x", "=", "1", ";">>,
      <<"let", "final", "x", "=", "1", ";">>,
      <<"let", "y", "=", "2", ";">>,
      <<"x", "=", "2", ";">>,
      <<"y", "=", "x", ";">>,
      <<"print", "x", ";">>,
      <<"print", "x", "+", "1", ";">>,
      <<"let", "zinke", "=", "1", ";">>,
      <<"altarage", "=", "2", ";">> }

RECURSIVE StmtSeqs(_)
StmtSeqs(n) ==
    IF n = 0 THEN {<<>>}
    ELSE LET shorter == StmtSeqs(n - 1)
         IN  shorter \cup {p \o s : p \in {q \in shorter : TRUE}, s \in GlobalStmts}

SessionPrograms == {Src(p) : p \in StmtSeqs(MaxStmts) \ {<<>>}}

\* pool "final": x is declared final, other statements follow, x is assigned
\* and printed; at global scope and inside a block
FinalMids ==
    { <<>>,
      <<"let", "y", "=", "2", ";">>,
      <<"let", "final", "y", "=", "2", ";">>,
      <<"print", "x", ";">> }

FinalProgram(mid, local) ==
    LET body == <<"let", "final", "x", "=", "1", ";">> \o mid
                  \o <<"x", "=", "2", ";", "print", "x", ";">>
    IN  Src(IF local THEN (<<"{">> \o body) \o <<"}">> ELSE body)

FinalPrograms == {FinalProgram(mid, local) : mid \in FinalMids, local \in BOOLEAN}

\* pool "shadow": a local x and a second x in a nested block
ShadowValues == {1, 2, 3}

Shadow(keyword, a, b) ==
    Src(<<"{", keyword, "x", "=", DigitChars[a + 1], ";",
          "{", keyword, "x", "=", DigitChars[b + 1], ";", "print", "x", ";", "}",
          "print", "x", ";", "}">>)

ShadowPrograms ==
    {Shadow(keyword, a, b) : keyword \in {"let", "var"},
                             a \in ShadowValues, b \in ShadowValues}

\* pool "text": every source text of up to MaxLen of these bytes, and `var x ;`
TextChars == {"1", ".", "/", "[", "]", ";", "x", " "}

TextPrograms ==
    UNION {[1..n -> TextChars] : n \in 0..MaxLen} \cup {Src(<<"var", "x", ";">>)}

\* n copies of chars
Repeat(chars, n) ==
    [i \in 1..(n * Len(chars)) |-> chars[((i - 1) % Len(chars)) + 1]]

\* `let v000 ; let v001 ; ... ` : n declarations of distinct names
Declarations(n) ==
    [i \in 1..(11 * n) |->
        LET k == (i - 1) \div 11
            j == ((i - 1) % 11) + 1
        IN  CASE j = 6 -> DigitChars[((k \div 100) % 10) + 1]
              [] j = 7 -> DigitChars[((k \div 10) % 10) + 1]
              [] j = 8 -> DigitChars[(k % 10) + 1]
              [] OTHER -> <<"l", "e", "t", " ", "v", "0", "0", "0", " ", ";", " ">>[j]]

\* a block of n locals and then a statement
ManyLocals(n, stmt) ==
    <<"{", " ">> \o Declarations(n) \o Src(stmt) \o <<" ", "}">>

\* a statement inside n nested blocks
Nested(n, stmt) ==
    Repeat(<<"{", " ">>, n) \o Src(stmt) \o Repeat(<<" ", "}">>, n)

\* a block that declares and prints one local
OneLocal == Src(<<"{", "let", "y", "=", "2", ";", "print", "y", ";", "}">>)

\* pool "deep": the most locals the compiler accepts and an expression, a
\* declaration inside I8Max and I8Max + 1 blocks, and a block of one local
DeepPrograms ==
    { ManyLocals(MAX_LOCALS, <<"print", "1", "+", "2", ";">>),
      Nested(I8Max, <<"let", "x", "=", "1", ";">>),
      Nested(I8Max + 1, <<"let", "x", "=", "1", ";">>),
      OneLocal }

\* pool "unary": a unary operator before the left operand of a binary one
UnaryOperators == {"-", "!"}
BinaryOperators == {"+", "-", "*", "/", "==", "!=", "<", "<=", ">", ">="}
Operands == {"1", "2", "a"}

UnaryProgram(u, a, op, b) == Src(<<"print", u, a, op, b, ";">>)

UnaryPrograms ==
    {UnaryProgram(u, a, op, b) : u \in UnaryOperators, a \in Operands,
                                 op \in BinaryOperators, b \in Operands}

\* pool "assign": an `=` after an expression that is not a variable name
Targets ==
    { <<"a", "+", "b">>, <<"-", "a">>, <<"!", "a">>, <<"a", "*", "-", "b">>,
      <<"(", "a", ")">> }

AssignProgram(target, value, local) ==
    LET stmt == target \o <<"=", value, ";">>
    IN  Src(IF local
            THEN (<<"{", "let", "a", "=", "1", ";", "let", "b", "=", "2", ";">>
                    \o stmt) \o <<"}">>
            ELSE stmt)

AssignPrograms ==
    {AssignProgram(target, value, local) :
        target \in Targets, value \in {"1", "2", "c"}, local \in BOOLEAN}

\* pool "keyword": programs with a declaration, written with `let` or `var`
KeywordForms == 1..8

KeywordProgram(keyword, form) ==
    CASE form = 1 -> Src(<<keyword, "x", "=", "1", ";">>)
      [] form = 2 -> Src(<<keyword, "final", "x", "=", "1", ";">>)
      [] form = 3 -> Src(<<keyword, "x", ";">>)
      [] form = 4 -> Src(<<keyword, "x", "=", "1", ";", "print", "x", ";">>)
      [] form = 5 -> Src(<<"{", keyword, "x", "=", "1", ";", "print", "x", ";", "}">>)
      [] form = 6 -> Src(<<"for", "(", keyword, "i", "=", "1", ";", "i", "<", "3", ";",
                           "i", "=", "i", "+", "1", ")", "print", "i", ";">>)
      [] form = 7 -> Src(<<keyword, "x", "=", "1", ";",
                           "{", keyword, "y", "=", "x", ";", "print", "y", ";", "}">>)
      [] form = 8 -> Src(<<keyword, "x", "=", "2", ";", "while", "(", "x", "<", "3", ")",
                           "x", "=", "x", "+", "1", ";", "print", "x", ";">>)

KeywordPrograms ==
    {KeywordProgram(keyword, form) : keyword \in {"let", "var"}, form \in KeywordForms}

\* pool "trivia": a run of up to MaxLen pieces of trivia (space, tab, carriage
\* return, line feed, a comment with its line feed) and then a statement or
\* the end of the text
TriviaPieces == { <<" ">>, <<"\t">>, <<"\r">>, <<NL>>, <<"/", "/", "c", NL>> }

RECURSIVE TriviaRuns(_)
TriviaRuns(n) ==
    IF n = 0 THEN {<<>>}
    ELSE LET shorter == TriviaRuns(n - 1)
         IN  shorter \cup {r \o t : r \in {q \in shorter : TRUE}, t \in TriviaPieces}

TriviaTails == { <<>>, Src(<<"print", "1", ";">>) }

TriviaPrograms == {r \o t : r \in TriviaRuns(MaxLen), t \in TriviaTails}

\* pool "number": literals `d1.d2` printed, and added to 3.  The fractions are
\* multiples of 1/8, which an f64 holds exactly.
WholeDigits == {"0", "1", "2", "3"}
Fractions == { <<"0">>, <<"5">>, <<"2", "5">>, <<"5", "0">>, <<"7", "5">>,
               <<"1", "2", "5">> }

Literal(d1, d2) == <<d1, ".">> \o d2

LiteralProgram(d1, d2) == (Src(<<"print">>) \o <<" ">>) \o Literal(d1, d2) \o <<" ", ";">>
SumProgram(d1, d2) ==
    (Src(<<"print", "3", "+">>) \o <<" ">>) \o Literal(d1, d2) \o <<" ", ";">>

NumberPrograms ==
    {LiteralProgram(d1, d2) : d1 \in WholeDigits, d2 \in Fractions}
      \cup {SumProgram(d1, d2) : d1 \in WholeDigits, d2 \in Fractions}

\* the decimal digits of n, and char sequences joined by single spaces
RECURSIVE NumChars(_)
NumChars(n) ==
    IF n < 10 THEN <<DigitChars[n + 1]>>
    ELSE NumChars(n \div 10) \o <<DigitChars[(n % 10) + 1]>>

RECURSIVE Join(_)
Join(parts) ==
    IF Len(parts) = 0 THEN <<>>
    ELSE IF Len(parts) = 1 THEN parts[1]
    ELSE (parts[1] \o <<" ">>) \o Join(Tail(parts))

\* pool "canon": the same integer produced by a literal, by arithmetic and by
\* Negate, around the limit of i16
Magnitudes == {0, 1, 2, I16Max - 1, I16Max, I16Max + 1, I16Max + 2}

\* `print ( - a ) == 0 - a ;`
NegLiteral(a) ==
    Join(<<Chars("print"), <<"(">>, <<"-">>, NumChars(a), <<")">>, Chars("=="),
           <<"0">>, <<"-">>, NumChars(a), <<";">>>>)
\* `print ( - ( 0 - a ) ) == a ;`
NegDifference(a) ==
    Join(<<Chars("print"), <<"(">>, <<"-">>, <<"(">>, <<"0">>, <<"-">>, NumChars(a),
           <<")">>, <<")">>, Chars("=="), NumChars(a), <<";">>>>)
\* `print ( a + 1 ) - 1 == a ;`
AddSubtract(a) ==
    Join(<<Chars("print"), <<"(">>, NumChars(a), <<"+">>, <<"1">>, <<")">>, <<"-">>,
           <<"1">>, Chars("=="), NumChars(a), <<";">>>>)
\* `print ( a * 2 ) / 2 == a ;`
MultiplyDivide(a) ==
    Join(<<Chars("print"), <<"(">>, NumChars(a), <<"*">>, <<"2">>, <<")">>, <<"/">>,
           <<"2">>, Chars("=="), NumChars(a), <<";">>>>)

CanonPrograms ==
    UNION {{NegLiteral(a), NegDifference(a), AddSubtract(a), MultiplyDivide(a)} :
             a \in Magnitudes}

\* pool "equal": `print a == b ;` for operands of every tag; an operand is
\* [tag, val, parts]: a string of up to MaxLen - 1 bytes written as one
\* literal (parts = 1) or as the concatenation of two literals (parts = 2)
StringBytes == {"s", "t"}
Strings(n) == UNION {[1..k -> StringBytes] : k \in 0..n}

EqualOperands ==
    {[tag |-> "Nil", val |-> Chars("nil"), parts |-> 1],
     [tag |-> "Bool", val |-> Chars("true"), parts |-> 1],
     [tag |-> "Bool", val |-> Chars("false"), parts |-> 1],
     [tag |-> "Number", val |-> <<"1">>, parts |-> 1],
     [tag |-> "Number", val |-> <<"2">>, parts |-> 1]}
      \cup {[tag |-> "String", val |-> w, parts |-> 1] : w \in Strings(MaxLen - 1)}
      \cup {[tag |-> "String", val |-> w, parts |-> 2] : w \in Strings(2)}

StringLiteral(w) == (<<QUOTE>> \o w) \o <<QUOTE>>

\* the text of an operand; a string of two parts is split after its first byte
\* (the empty string is "" + "")
OperandText(o) ==
    IF o.tag # "String" THEN o.val
    ELSE IF o.parts = 1 THEN StringLiteral(o.val)
    ELSE Join(<<StringLiteral(SubSeq(o.val, 1, IF Len(o.val) = 0 THEN 0 ELSE 1)),
                <<"+">>, StringLiteral(SubSeq(o.val, 2, Len(o.val)))>>)

EqualProgram(a, b) ==
    Join(<<Chars("print"), OperandText(a), Chars("=="), OperandText(b), <<";">>>>)

EqualPrograms == {EqualProgram(a, b) : a \in EqualOperands, b \in EqualOperands}

\* pool "logic": `print a and b ;`, `print a or b ;` and the two mixed forms
\* of three operands
LogicOperands == {"nil", "false", "true", "0", "1", "\"s\""}
LogicOperators == {"and", "or"}

LogicProgram(a, op, b) == Src(<<"print", a, op, b, ";">>)
LogicProgram3(a, op1, b, op2, c) == Src(<<"print", a, op1, b, op2, c, ";">>)

LogicPrograms ==
    {LogicProgram(a, op, b) : a \in LogicOperands, op \in LogicOperators,
                              b \in LogicOperands}
      \cup {LogicProgram3(a, op[1], b, op[2], c) :
               a \in LogicOperands, b \in LogicOperands, c \in LogicOperands,
               op \in {<<"and", "or">>, <<"or", "and">>}}

\* pool "for": loops that count from 0 to n - 1, n up to MaxLen.
\* `for ( let i = 0 ; i < n ; i = i + 1 ) print i ;`
ForLocal(n) ==
    Join(<<Src(<<"for", "(", "let", "i", "=", "0", ";", "i", "<">>), NumChars(n),
           Src(<<";", "i", "=", "i", "+", "1", ")", "print", "i", ";">>)>>)
\* `let i = 0 ; for ( ; i < n ; i = i + 1 ) print i ; print i ;`
ForGlobal(n) ==
    Join(<<Src(<<"let", "i", "=", "0", ";", "for", "(", ";", "i", "<">>), NumChars(n),
           Src(<<";", "i", "=", "i", "+", "1", ")", "print", "i", ";",
                 "print", "i", ";">>)>>)
\* `let i = 0 ; for ( ; i < n ; ) i = i + 1 ; print i ;`
ForNoIncrement(n) ==
    Join(<<Src(<<"let", "i", "=", "0", ";", "for", "(", ";", "i", "<">>), NumChars(n),
           Src(<<";", ")", "i", "=", "i", "+", "1", ";", "print", "i", ";">>)>>)

ForPrograms == UNION {{ForLocal(n), ForGlobal(n), ForNoIncrement(n)} : n \in 0..MaxLen}

\* pool "redeclare": two declarations in one block, alone or nested in a block
\* that declares `outer` first (<<>> for no declaration)
RedeclareNames == {"x", "y"}

RedeclareOuters == {<<>>, <<"a">>, <<"x">>, <<"y">>}

TwoLocals(n1, n2) ==
    <<"{", "let", n1, "=", "1", ";", "let", n2, "=", "2", ";", "}">>

Redeclare(outer, n1, n2) ==
    Src((<<"{">> \o (IF outer = <<>> THEN <<>>
                     ELSE <<"let", outer[1], "=", "0", ";">>))
          \o TwoLocals(n1, n2) \o <<"}">>)

RedeclarePrograms ==
    {Src(TwoLocals(n1, n2)) : n1 \in RedeclareNames, n2 \in RedeclareNames}
      \cup {Redeclare(outer, n1, n2) : outer \in RedeclareOuters,
                                       n1 \in RedeclareNames, n2 \in RedeclareNames}

\* pool "initializer": a declaration of x in a block, alone or nested in a
\* block that declares `outer` first, with an initializer that mentions x or
\* is a literal
OwnInitializers == {<<"x">>, <<"x", "+", "1">>, <<"1", "+", "x">>, <<"-", "x">>}

Initializers == OwnInitializers \cup {<<"1">>}

InitializerOuters == {<<>>, <<"a">>, <<"x">>}

DeclareX(init) == (<<"{", "let", "x", "=">> \o init) \o <<";", "}">>

InitializerProgram(outer, init) ==
    Src((<<"{">> \o (IF outer = <<>> THEN <<>>
                     ELSE <<"let", outer[1], "=", "0", ";">>))
          \o DeclareX(init) \o <<"}">>)

InitializerPrograms ==
    {Src(DeclareX(init)) : init \in Initializers}
      \cup {InitializerProgram(outer, init) : outer \in InitializerOuters,
                                              init \in Initializers}

\* pool "operators": `print 7 o1 3 o2 2 ... ;` for every choice of one or two
\* binary operators and for three of ChainOperators, and a chained assignment
\* to two globals or to two locals
ChainOperators == {"==", "<", "-", "*"}

OperandDigits == <<"7", "3", "2", "1">>

\* operands and operators in turn
Operation(ops) ==
    [i \in 1..((2 * Len(ops)) + 1) |->
        IF i % 2 = 1 THEN OperandDigits[(i + 1) \div 2] ELSE ops[i \div 2]]

BinaryProgram(ops) == Src((<<"print">> \o Operation(ops)) \o <<";">>)

ChainedAssignment(local) ==
    LET body == <<"let", "a", "=", "1", ";", "let", "b", "=", "2", ";",
                  "a", "=", "b", "=", "3", ";", "print", "a", ";", "print", "b", ";">>
    IN  Src(IF local THEN (<<"{">> \o body) \o <<"}">> ELSE body)

OperatorRuns ==
    UNION {[1..n -> BinaryOperators] : n \in 1..2} \cup [1..3 -> ChainOperators]

BinaryPrograms ==
    {BinaryProgram(ops) : ops \in OperatorRuns}
      \cup {ChainedAssignment(local) : local \in BOOLEAN}

\* pool "types": an arithmetic or comparison operator between two operands of
\* any type, or a negation of one, and then a second print statement
TypeOperands == {"nil", "true", "1", "\"s\""}

TypeOperators == {"+", "-", "*", "/", "<", ">", "<=", ">="}

TypeProgram(a, op, b) == Src(<<"print", a, op, b, ";", "print", "9", ";">>)

NegateProgram(a) == Src(<<"print", "-", a, ";", "print", "9", ";">>)

TypePrograms ==
    {TypeProgram(a, op, b) : a \in TypeOperands, op \in TypeOperators,
                             b \in TypeOperands}
      \cup {NegateProgram(a) : a \in TypeOperands}

\* pool "concat": `print "a" + "b" ;` for every two strings of up to
\* MaxLen - 1 of the bytes s and t
ConcatProgram(a, b) ==
    Join(<<Chars("print"), StringLiteral(a), <<"+">>, StringLiteral(b), <<";">>>>)

ConcatPrograms ==
    {ConcatProgram(a, b) : a \in Strings(MaxLen - 1), b \in Strings(MaxLen - 1)}

\* pool "constants": n expression statements `1 ;` and then `print 2 ;`, a
\* chunk of n + 1 constants, for n around the 256 that one byte can index
ConstantCounts == {254, 255, 256, 257}

ManyConstants(n) == Repeat(<<"1", " ", ";", " ">>, n) \o Src(<<"print", "2", ";">>)

ConstantPrograms == {ManyConstants(n) : n \in ConstantCounts}

\* pool "recover": programs with a compile error and programs without one,
\* for sessions of several calls on one VM
BrokenPrograms ==
    { Src(<<"print", ";">>),
      Src(<<"let", "final", "1", ";">>),
      Src(<<"{", "let", "x", "=", "1", ";">>),
      Src(<<"1", "+", ";">>) }

SoundPrograms ==
    { Src(<<"print", "1", ";">>),
      Src(<<"let", "x", "=", "1", ";", "print", "x", ";">>),
      Src(<<"{", "let", "y", "=", "2", ";", "print", "y", ";", "}">>) }

RecoverPrograms == BrokenPrograms \cup SoundPrograms

\* pool "nonfinal": y is declared without `final`, before or after a final x,
\* and is then assigned a literal or the value of x; at global scope and
\* inside a block
NonFinalHeads ==
    { <<"let", "y", "=", "1", ";", "let", "final", "x", "=", "2", ";">>,
      <<"let", "final", "x", "=", "2", ";", "let", "y", "=", "1", ";">>,
      <<"let", "x", "=", "2", ";", "let", "y", "=", "1", ";">> }

NonFinalProgram(head, value, local) ==
    LET body == head \o <<"y", "=", value, ";", "print", "y", ";">>
    IN  Src(IF local THEN (<<"{">> \o body) \o <<"}">> ELSE body)

NonFinalPrograms ==
    {NonFinalProgram(head, value, local) :
        head \in NonFinalHeads, value \in {"5", "x"}, local \in BOOLEAN}

\* pool "jumps": an if statement with and without else, a while loop, the
\* for loop of ForLocal, and `and` and `or`
IfConditions == {"nil", "false", "true", "0"}

IfProgram(cond, else) ==
    Src((<<"if", "(", cond, ")", "print", "1", ";">>
           \o (IF else THEN <<"else", "print", "2", ";">> ELSE <<>>))
          \o <<"print", "3", ";">>)

WhileProgram(n) ==
    Src(<<"let", "i", "=", "0", ";",
          "while", "(", "i", "<", DigitChars[n + 1], ")", "i", "=", "i", "+", "1", ";",
          "print", "i", ";">>)

JumpPrograms ==
    {IfProgram(cond, else) : cond \in IfConditions, else \in BOOLEAN}
      \cup {WhileProgram(n) : n \in 0..MaxLen}
      \cup {ForLocal(n) : n \in 0..MaxLen}
      \cup {LogicProgram(a, op, b) : a \in {"nil", "true"}, op \in LogicOperators,
                                     b \in {"false", "1"}}

\* pool "panic": every program of up to MaxLen of these words
PanicWords == {"print", "1", "+", ";", ")", "let", "x"}

PanicPrograms == UNION {{Src(p) : p \in [1..n -> PanicWords]} : n \in 1..MaxLen}

\* pool "errors": every text of up to MaxLen of these bytes; @ is a byte no
\* token starts with and a quote opens a string
ErrorChars == {"@", QUOTE, "s", ";"}

ErrorPrograms == UNION {[1..n -> ErrorChars] : n \in 1..MaxLen}

\* pool "forms": a for loop at the start of the chunk with and without a
\* condition and an increment, and then `print 2 ;`; the body of a loop
\* without a condition ends the call with a runtime error; and the loops of
\* pool "for"
FormConditions == {<<>>, <<"false">>, <<"nil">>}

FormIncrements == {<<>>, <<"1">>}

FormBody(cond) ==
    IF cond = <<>> THEN <<"print", "nil", "+", "1", ";">> ELSE <<"print", "1", ";">>

FormProgram(cond, incr) ==
    Src((((((<<"for", "(", ";">> \o cond) \o <<";">>) \o incr) \o <<")">>)
           \o FormBody(cond)) \o <<"print", "2", ";">>)

FormPrograms ==
    {FormProgram(cond, incr) : cond \in FormConditions, incr \in FormIncrements}
      \cup ForPrograms

Programs(p) ==
    CASE p = "session" -> SessionPrograms
      [] p = "final" -> FinalPrograms
      [] p = "shadow" -> ShadowPrograms
      [] p = "text" -> TextPrograms
      [] p = "deep" -> DeepPrograms
      [] p = "unary" -> UnaryPrograms
      [] p = "assign" -> AssignPrograms
      [] p = "keyword" -> KeywordPrograms
      [] p = "trivia" -> TriviaPrograms
      [] p = "number" -> NumberPrograms
      [] p = "canon" -> CanonPrograms
      [] p = "equal" -> EqualPrograms
      [] p = "logic" -> LogicPrograms
      [] p = "for" -> ForPrograms
      [] p = "redeclare" -> RedeclarePrograms
      [] p = "initializer" -> InitializerPrograms
      [] p = "operators" -> BinaryPrograms
      [] p = "types" -> TypePrograms
      [] p = "concat" -> ConcatPrograms
      [] p = "constants" -> ConstantPrograms
      [] p = "recover" -> RecoverPrograms
      [] p = "nonfinal" -> NonFinalPrograms
      [] p = "jumps" -> JumpPrograms
      [] p = "panic" -> PanicPrograms
      [] p = "errors" -> ErrorPrograms
      [] p = "forms" -> FormPrograms

\* the calls of interpret in a session
CallBound(p) == IF p \in {"text", "unary", "trivia", "number", "canon", "equal", "logic", "for", "redeclare", "initializer", "operators", "types", "concat", "constants", "jumps", "panic", "errors", "forms"} THEN 1 ELSE MaxCalls

(***************************************************************************)
(* Actions                                                                 *)
(***************************************************************************)
\* VM::interpret up to the call of run: compile, and on a compile error free
\* the chunk and return
Interpret ==
    /\ phase = "idle"
    /\ calls < CallBound(pool)
    /\ \E code \in Programs(pool) :
          LET Compiled(c) ==
                  IF c.abort
                  THEN /\ vm' = [vm EXCEPT !.compiler = c]
                       /\ phase' = "aborted"
                       /\ result' = "abort"
                  ELSE IF c.parser.had_error
                  THEN /\ vm' = [vm EXCEPT
                                   !.compiler = [c EXCEPT !.chunk = Chunk_free(@)],
                                   !.stdout = <<>>]
                       /\ phase' = "idle"
                       /\ result' = "InterpretCompileError"
                  ELSE /\ vm' = [vm EXCEPT !.compiler = c, !.ip = 0, !.stdout = <<>>]
                       /\ phase' = "running"
                       /\ result' = "none"
          IN  Compiled(compile([vm.compiler EXCEPT !.stderr = <<>>], code))
    /\ calls' = calls + 1
    /\ UNCHANGED pool

\* one iteration of the loop of run; when run returns, interpret frees the
\* chunk, resets the stack and returns the result
Run ==
    /\ phase = "running"
    /\ LET Stepped(r) ==
               IF r.outcome = "continue"
               THEN /\ vm' = r.vm
                    /\ UNCHANGED <<phase, result>>
               ELSE IF r.outcome = "abort"
               THEN /\ vm' = r.vm
                    /\ phase' = "aborted"
                    /\ result' = "abort"
               ELSE /\ vm' = reset_stack([r.vm EXCEPT !.compiler.chunk = Chunk_free(@)])
                    /\ phase' = "idle"
                    /\ result' = r.outcome
       IN  Stepped(RunStep(vm))
    /\ UNCHANGED <<calls, pool>>

\* VM::free_vm, called by main when the session ends
FreeVm ==
    /\ phase = "idle"
    /\ calls > 0
    /\ vm' = free_vm(vm)
    /\ phase' = "freed"
    /\ UNCHANGED <<result, calls, pool>>

InitPool(p) ==
    /\ \E checks \in BOOLEAN : vm = [init_vm EXCEPT !.overflow_checks = checks]
    /\ phase = "idle"
    /\ result = "none"
    /\ calls = 0
    /\ pool = p

Init == InitPool("session")

Next == Interpret \/ Run \/ FreeVm

Spec == Init /\ [][Next]_vars

SpecFinal == InitPool("final") /\ [][Next]_vars
SpecShadow == InitPool("shadow") /\ [][Next]_vars
SpecText == InitPool("text") /\ [][Next]_vars
SpecDeep == InitPool("deep") /\ [][Next]_vars
SpecUnary == InitPool("unary") /\ [][Next]_vars
SpecAssign == InitPool("assign") /\ [][Next]_vars
SpecKeyword == InitPool("keyword") /\ [][Next]_vars
SpecTrivia == InitPool("trivia") /\ [][Next]_vars
SpecNumber == InitPool("number") /\ [][Next]_vars
SpecCanon == InitPool("canon") /\ [][Next]_vars
SpecEqual == InitPool("equal") /\ [][Next]_vars
SpecLogic == InitPool("logic") /\ [][Next]_vars
SpecFor == InitPool("for") /\ [][Next]_vars
SpecRedeclare == InitPool("redeclare") /\ [][Next]_vars
SpecInitializer == InitPool("initializer") /\ [][Next]_vars
SpecBinary == InitPool("operators") /\ [][Next]_vars
SpecTypes == InitPool("types") /\ [][Next]_vars
SpecConcat == InitPool("concat") /\ [][Next]_vars
SpecConstants == InitPool("constants") /\ [][Next]_vars
SpecRecover == InitPool("recover") /\ [][Next]_vars
SpecNonFinal == InitPool("nonfinal") /\ [][Next]_vars
SpecJumps == InitPool("jumps") /\ [][Next]_vars
SpecPanic == InitPool("panic") /\ [][Next]_vars
SpecErrors == InitPool("errors") /\ [][Next]_vars
SpecForms == InitPool("forms") /\ [][Next]_vars

(***************************************************************************)
(* Properties                                                              *)
(***************************************************************************)
\* the source text of the last call of interpret
Source == vm.compiler.scanner.source

\* the opcode byte the next iteration of run reads
NextOp(v) == IF v.ip < Len(Code(v)) THEN Code(v)[v.ip + 1] ELSE -1

\* the one-byte operand after it, and the name it denotes in the constant pool
NextOperand(v) == Code(v)[v.ip + 2]
NextName(v) == Constants(v)[NextOperand(v) + 1].value.v

\* the message of the last diagnostic written
LastMessage(v) == v.compiler.stderr[Len(v.compiler.stderr)].message

\* the number n as a value
Num(n) == NumberValue(LNum_new(F64(n, 1)))

\* the operand bytes that follow an opcode, and the offsets (from 1) at which
\* the instructions of a chunk start
OperandBytes(op) ==
    IF op \in {OpConstant, OpDefineGlobal, OpGetGlobal, OpSetGlobal, OpGetLocal,
               OpSetLocal}
    THEN 1
    ELSE IF op \in {OpJump, OpJumpIfFalse, OpLoop} THEN 2 ELSE 0

RECURSIVE InstructionsFrom(_, _)
InstructionsFrom(code, i) ==
    IF i > Len(code) THEN {}
    ELSE {i} \cup InstructionsFrom(code, (i + 1) + OperandBytes(code[i]))

\* C1: once a variable is declared final, every later assignment to it raises
\* the runtime error 'Variable ... is final and cannot be modified.' and leaves
\* its value unchanged, whatever comes between the declaration and the
\* assignment.  In the programs of pool "final" every assignment is to x, which
\* is declared final: each SetGlobal and SetLocal that run executes must end the
\* call with that runtime error and change neither the globals nor the stack.
C1_FinalAssignmentRaises ==
    [][(phase = "running" /\ ~vm.had_error
          /\ NextOp(vm) \in {OpSetGlobal, OpSetLocal})
         => /\ phase' = "idle"
            /\ result' = "InterpretRuntimeError"
            /\ LastMessage(vm') = "Variable '{}' is final and cannot be modified."
            /\ vm'.compiler.globals.entries = vm.compiler.globals.entries
            /\ vm'.stack = vm.stack]_vars

\* C2: a name inside nested blocks resolves to the innermost local of that
\* name: `{ var x = a; { var x = b; print x; } print x; }` prints b then a
\* (and the same written with `let`).
C2_InnermostShadows ==
    \A keyword \in {"let", "var"}, a \in ShadowValues, b \in ShadowValues :
        (Source = Shadow(keyword, a, b) /\ calls = 1 /\ phase \in {"idle", "aborted"})
          => (result = "InterpretOk" /\ vm.stdout = <<Num(b), Num(a)>>)

\* C3: SetGlobal never creates a binding: an assignment to a global name that
\* DefineGlobal never bound ends the call with a runtime error and leaves the
\* globals table as it was.  No program of pool "session" declares altarage;
\* another name is unbound when the table has no entry of its key.
C3_SetGlobalNeverBinds ==
    [][(phase = "running" /\ ~vm.had_error /\ NextOp(vm) = OpSetGlobal
          /\ (\/ NextName(vm) = Chars("altarage")
              \/ ~has_entry(vm.compiler.globals, hash_str(NextName(vm)))))
         => /\ phase' = "idle"
            /\ result' = "InterpretRuntimeError"
            /\ vm'.compiler.globals.entries = vm.compiler.globals.entries]_vars

\* C4: for every source text interpret returns one of InterpretOk,
\* InterpretCompileError and InterpretRuntimeError: no text makes the scanner,
\* the parse-rule lookup or the VM abort.
C4_AlwaysAResult ==
    (calls > 0 /\ phase # "running")
      => result \in {"InterpretOk", "InterpretCompileError", "InterpretRuntimeError"}

\* C5: when a program that compiled without error reaches its final Return
\* without a runtime error, the value stack is empty (stack_top = 0).
C5_StackEmptyAtReturn ==
    (phase = "running" /\ ~vm.had_error /\ NextOp(vm) = OpReturn)
      => vm.stack_top = 0

\* C6: local slot identity: when GetLocal or SetLocal with operand s executes,
\* slot s holds the value of the local whose index in the compiler's locals was
\* s: the slot is one of the values on the stack, and in `{ let y = 2; print
\* y; }` the slot read for y holds 2.
C6_LocalSlotIdentity ==
    (phase = "running" /\ ~vm.had_error /\ NextOp(vm) \in {OpGetLocal, OpSetLocal})
      => /\ NextOperand(vm) < vm.stack_top
         /\ Source = OneLocal => StackAt(vm, NextOperand(vm)).value = Num(2)

\* C7: running a program the compiler accepted never aborts: no push on a full
\* stack, no pop of an empty one, no peek below the bottom, no constant operand
\* past the pool -- also with the most locals the compiler accepts and the
\* temporaries of an expression.
C7_RunNeverAborts == phase = "running" => RunStep(vm).outcome # "abort"

\* the code the claim C8 gives for an operand (the k-th constant), a unary and a
\* binary operator
OperandCode(a, k) == IF a = "a" THEN <<OpGetGlobal, k>> ELSE <<OpConstant, k>>
UnaryCode(u) == IF u = "-" THEN <<OpNegate>> ELSE <<OpNot>>
BinaryCode(op) ==
    CASE op = "+" -> <<OpAdd>>
      [] op = "-" -> <<OpSubtract>>
      [] op = "*" -> <<OpMultiply>>
      [] op = "/" -> <<OpDivide>>
      [] op = "==" -> <<OpEqual>>
      [] op = "!=" -> <<OpEqual, OpNot>>
      [] op = "<" -> <<OpLess>>
      [] op = "<=" -> <<OpGreater, OpNot>>
      [] op = ">" -> <<OpGreater>>
      [] op = ">=" -> <<OpLess, OpNot>>

\* C8: unary `!` and `-` bind tighter than every binary operator: `print u a op
\* b;` compiles to a, the unary operation, b, the binary operation, and
\* `print -1 + 2;` prints (-1) + 2 = 1.
C8_UnaryBindsTighter ==
    /\ \A u \in UnaryOperators, a \in Operands, op \in BinaryOperators, b \in Operands :
          (Source = UnaryProgram(u, a, op, b) /\ phase = "running")
            => Code(vm) = (((OperandCode(a, 0) \o UnaryCode(u)) \o OperandCode(b, 1))
                             \o BinaryCode(op)) \o <<OpPrint, OpReturn>>
    /\ (Source = UnaryProgram("-", "1", "+", "2") /\ phase = "idle" /\ calls = 1)
         => (result = "InterpretOk" /\ vm.stdout = <<Num(1)>>)

\* C9: an `=` whose left-hand side is not a bare variable name (a + b, -a, !a,
\* a * -b, (a)) is always a compile error and never compiles to a SetLocal or
\* SetGlobal instruction.  Every program of pool "assign" has such an `=`.
C9_InvalidTargetRejected ==
    calls > 0
      => /\ phase \in {"idle", "freed"}
         /\ result = "InterpretCompileError"
         /\ \A i \in InstructionsFrom(Code(vm), 1) :
               Code(vm)[i] \notin {OpSetLocal, OpSetGlobal}

\* C10: `var` and `let` are synonyms: a program written with `var` has the
\* compile outcome and the bytecode of the same program written with `let`,
\* with and without `final`.
C10_VarLetSynonyms ==
    \A form \in KeywordForms :
        (Source = KeywordProgram("let", form) /\ calls = 1 /\ phase # "freed")
          => LET with_var == compile(Compiler_new, KeywordProgram("var", form))
             IN  /\ ~with_var.abort
                 /\ with_var.parser.had_error <=> (result = "InterpretCompileError")
                 /\ phase = "running" => with_var.chunk.code = Code(vm)

\* the line feeds of a text, and the bytes of a text that are not in TriviaPieces
LineFeeds(src) == Cardinality({i \in 1..Len(src) : src[i] = NL})
TokenBytes(src) == {i \in 1..Len(src) : src[i] \in {"p", "r", "i", "n", "t", "1", ";"}}

\* C11: trivia between tokens is skipped.  For a text that is a run of spaces,
\* tabs, carriage returns, line feeds and `//` comments followed by `print 1 ;`
\* or by nothing, the first scan_token returns the first real token (Print, or
\* Eof) on line 1 + the number of line feeds skipped, with the scanner past the
\* whole run; so no Error token is reported (no compile error) and every byte
\* of the chunk is attributed to that line.
C11_TriviaSkipped ==
    calls > 0
      => LET first == scan_token(init_scanner(Source))
             skipped == IF TokenBytes(Source) = {} THEN Source
                        ELSE SubSeq(Source, 1, first[1].start)
         IN  /\ first[1].token_type = (IF TokenBytes(Source) = {} THEN "Eof" ELSE "Print")
             /\ first[1].line = 1 + LineFeeds(skipped)
             /\ TokenBytes(Source) # {}
                  => first[1].start + 1 = CHOOSE i \in TokenBytes(Source) :
                                             \A j \in TokenBytes(Source) : i <= j
             /\ result # "InterpretCompileError"
             /\ phase = "running"
                  => \A i \in 1..Len(vm.compiler.chunk.lines) :
                         vm.compiler.chunk.lines[i] = 1 + LineFeeds(Source)

\* the decimal value d1 + 0.d2 as a number value
Decimal(d1, d2) ==
    NumberValue(LNum_new(F64((DigitsValue(<<d1>>, 1, 0) * (10 ^ Len(d2)))
                               + DigitsValue(d2, 1, 0),
                             10 ^ Len(d2))))

\* C12: a numeric literal with a non-zero fractional part denotes exactly that
\* decimal value, as a float: `print d1.d2 ;` prints the float d1 + 0.d2 and
\* `print 3 + d1.d2 ;` prints the float 3 + d1 + 0.d2; so `3 + 0.5` is 3.5.
C12_FractionCounts ==
    \A d1 \in WholeDigits, d2 \in Fractions :
        (DigitsValue(d2, 1, 0) # 0 /\ calls = 1 /\ phase = "idle")
          => /\ Source = LiteralProgram(d1, d2)
                  => /\ result = "InterpretOk"
                     /\ vm.stdout = <<Decimal(d1, d2)>>
                     /\ vm.stdout[1].v.kind = "Float"
             /\ Source = SumProgram(d1, d2)
                  => /\ result = "InterpretOk"
                     /\ vm.stdout = <<NumberValue(LNum_new(F64Add(F64(3, 1),
                                          real_val(Decimal(d1, d2).v))))>>
                     /\ vm.stdout[1].v.kind = "Float"

\* C13: integer Numbers are canonical.  Every integer Number on the stack is in
\* the smallest of the i16/i32/i64 variants that holds it, Negate never
\* overflows, and the same integer compares equal however it was produced:
\* each program of pool "canon" compares two ways to produce one integer and
\* prints true.
C13_IntegersCanonical ==
    /\ \A i \in 0..(vm.stack_top - 1) :
          (is_number(StackAt(vm, i).value) /\ StackAt(vm, i).value.v.kind # "Float")
            => StackAt(vm, i).value.v = LInt_new(StackAt(vm, i).value.v.num)
    /\ (phase = "running" /\ NextOp(vm) = OpNegate /\ is_number(peek(vm, 0).value))
         => ~negate_overflows(peek(vm, 0).value.v)
    /\ calls > 0 => phase # "aborted"
    /\ (calls > 0 /\ phase \in {"idle", "freed"})
         => (result = "InterpretOk" /\ vm.stdout = <<BoolValue(TRUE)>>)

\* C14: Equal pushes false whenever the tags of its operands differ, and for
\* two strings true exactly when their bytes are the same, whether a string is
\* a literal or the result of a concatenation.  Each Equal that run executes
\* replaces its two operands by that Bool, and `print a == b ;` prints it.
C14_EqualByTagAndBytes ==
    /\ (phase = "running" /\ ~vm.had_error /\ NextOp(vm) = OpEqual)
         => /\ vm.stack_top >= 2
            /\ RunStep(vm).outcome = "continue"
            /\ RunStep(vm).vm.stack_top = vm.stack_top - 1
            /\ peek(RunStep(vm).vm, 0).value.tag = "Bool"
            /\ peek(vm, 0).value.tag # peek(vm, 1).value.tag
                 => peek(RunStep(vm).vm, 0).value = BoolValue(FALSE)
            /\ (is_string(peek(vm, 0).value) /\ is_string(peek(vm, 1).value))
                 => peek(RunStep(vm).vm, 0).value
                      = BoolValue(peek(vm, 0).value.v = peek(vm, 1).value.v)
    /\ \A a \in EqualOperands, b \in EqualOperands :
          (Source = EqualProgram(a, b) /\ calls = 1 /\ phase = "idle")
            => /\ result = "InterpretOk"
               /\ vm.stdout = <<BoolValue(a.tag = b.tag /\ a.val = b.val)>>

\* `print "s" + "t" == "st" ;` has printed true
C14_ConcatenationEqualsLiteral ==
    /\ Source = EqualProgram([tag |-> "String", val |-> <<"s", "t">>, parts |-> 2],
                             [tag |-> "String", val |-> <<"s", "t">>, parts |-> 1])
    /\ phase = "idle"
    /\ result = "InterpretOk"
    /\ vm.stdout = <<BoolValue(TRUE)>>

\* the value an operand of pool "logic" denotes, whether it is falsey, and its
\* code when k constants precede it
LogicValue(o) ==
    CASE o = "nil" -> NilValue
      [] o = "false" -> BoolValue(FALSE)
      [] o = "true" -> BoolValue(TRUE)
      [] o = "0" -> Num(0)
      [] o = "1" -> Num(1)
      [] o = "\"s\"" -> StringValue(<<"s">>)
Falsey(o) == o \in {"nil", "false"}
And(a, b) == IF Falsey(a) THEN a ELSE b
Or(a, b) == IF Falsey(a) THEN b ELSE a
LogicCode(o, k) ==
    CASE o = "nil" -> <<OpNil>>
      [] o = "false" -> <<OpFalse>>
      [] o = "true" -> <<OpTrue>>
      [] OTHER -> <<OpConstant, k>>

\* C15: `and` and `or` short-circuit and leave exactly one value.  `a and b`
\* is a, JumpIfFalse end, Pop, b, end: and `a or b` is a, JumpIfFalse else,
\* Jump end, else: Pop, b, end:.  When a decides the result (a falsey for
\* `and`, truthy for `or`) no instruction of b executes and a is the value
\* left; otherwise the value of b is left; the stack holds one value when the
\* Print after the expression executes.
C15_ShortCircuit ==
    /\ (phase = "running" /\ NextOp(vm) = OpPrint) => vm.stack_top = 1
    /\ \A a \in LogicOperands, b \in LogicOperands :
          LET before == Len(LogicCode(a, 0))
              right == LogicCode(b, before - 1)
          IN  /\ Source = LogicProgram(a, "and", b)
                   => /\ phase = "running"
                           => /\ Code(vm) = (((LogicCode(a, 0)
                                     \o <<OpJumpIfFalse, 0, 1 + Len(right), OpPop>>)
                                     \o right) \o <<OpPrint, OpReturn>>)
                              /\ Falsey(a)
                                   => vm.ip \notin (before + 4)..(before + 3 + Len(right))
                      /\ (phase = "idle" /\ calls = 1)
                           => (result = "InterpretOk"
                                /\ vm.stdout = <<LogicValue(And(a, b))>>)
              /\ Source = LogicProgram(a, "or", b)
                   => /\ phase = "running"
                           => /\ Code(vm) = (((LogicCode(a, 0)
                                     \o <<OpJumpIfFalse, 0, 3, OpJump, 0, 1 + Len(right),
                                           OpPop>>)
                                     \o right) \o <<OpPrint, OpReturn>>)
                              /\ ~Falsey(a)
                                   => vm.ip \notin (before + 6)..(before + 6 + Len(right))
                      /\ (phase = "idle" /\ calls = 1)
                           => (result = "InterpretOk"
                                /\ vm.stdout = <<LogicValue(Or(a, b))>>)
    /\ \A a \in LogicOperands, b \in LogicOperands, c \in LogicOperands :
          (phase = "idle" /\ calls = 1)
            => /\ Source = LogicProgram3(a, "and", b, "or", c)
                    => (result = "InterpretOk"
                         /\ vm.stdout = <<LogicValue(Or(And(a, b), c))>>)
               /\ Source = LogicProgram3(a, "or", b, "and", c)
                    => (result = "InterpretOk"
                         /\ vm.stdout = <<LogicValue(Or(a, And(b, c)))>>)

\* `print false and 1 ;` has jumped over the 1 and printed false, and
\* `print 1 or "s" ;` is about to print the 1
C15_LeftOperandDecides ==
    \/ /\ Source = LogicProgram("false", "and", "1")
       /\ phase = "idle"
       /\ result = "InterpretOk"
       /\ vm.stdout = <<BoolValue(FALSE)>>
    \/ /\ Source = LogicProgram("1", "or", "\"s\"")
       /\ phase = "running"
       /\ NextOp(vm) = OpPrint
       /\ peek(vm, 0).value = Num(1)

\* the numbers 0 .. n - 1
Counted(n) == [k \in 1..n |-> Num(k - 1)]

\* the code of ForLocal(n) as section 4.7 lays it out, and the part of the loop
\* an offset of that code belongs to
ForLocalCode ==
    <<OpConstant, 0,
      OpGetLocal, 0, OpConstant, 1, OpLess, OpJumpIfFalse, 0, 21, OpPop, OpJump, 0, 11,
      OpGetLocal, 0, OpConstant, 2, OpAdd, OpSetLocal, 0, OpPop, OpLoop, 0, 23,
      OpGetLocal, 0, OpPrint, OpLoop, 0, 17,
      OpPop, OpPop, OpReturn>>
ForPart(ip) ==
    IF ip < 2 THEN "init"
    ELSE IF ip < 14 THEN "cond"
    ELSE IF ip < 25 THEN "incr"
    ELSE IF ip < 31 THEN "body"
    ELSE "exit"

\* C16: `for (init; cond; incr) S` executes init once, then repeats: cond; if
\* it is falsey the loop is left without running S or incr; otherwise S, then
\* incr, then cond again; the loop variable is popped when the loop ends.  In
\* ForLocal(n) control only passes init -> cond, cond -> body (cond truthy),
\* cond -> exit (cond falsey), body -> incr, incr -> cond, and the stack is
\* empty at Return; ForLocal(n) and ForGlobal(n) print 0 .. n - 1, and the
\* global i is n after ForGlobal(n) and after ForNoIncrement(n).
C16_ForLoopOrder ==
    /\ (phase = "running" /\ RunStep(vm).outcome = "continue"
          /\ \E n \in 0..MaxLen : Source = ForLocal(n))
         => /\ Code(vm) = ForLocalCode
            /\ <<ForPart(vm.ip), ForPart(RunStep(vm).vm.ip)>> \in
                  { <<"init", "cond">>, <<"cond", "cond">>, <<"cond", "body">>,
                    <<"cond", "exit">>, <<"body", "body">>, <<"body", "incr">>,
                    <<"incr", "incr">>, <<"incr", "cond">>, <<"exit", "exit">> }
            /\ NextOp(vm) = OpJumpIfFalse
                 => ForPart(RunStep(vm).vm.ip) = (IF is_falsey(peek(vm, 0).value)
                                                   THEN "exit" ELSE "cond")
            /\ NextOp(vm) = OpReturn => vm.stack_top = 0
    /\ phase # "aborted"
    /\ \A n \in 0..MaxLen :
          (calls = 1 /\ phase = "idle")
            => /\ Source = ForLocal(n)
                    => (result = "InterpretOk" /\ vm.stdout = Counted(n))
               /\ Source = ForNoIncrement(n)
                    => (result = "InterpretOk" /\ vm.stdout = <<Num(n)>>)
               /\ Source = ForGlobal(n)
                    => (result = "InterpretOk"
                         /\ vm.stdout = Counted(n) \o <<Num(n)>>)

\* ForLocal(2) is in its second iteration: 0 is printed, the increment has run
\* and the body is about to print 1
C16_SecondIteration ==
    /\ Source = ForLocal(2)
    /\ phase = "running"
    /\ vm.stdout = <<Num(0)>>
    /\ NextOp(vm) = OpPrint
    /\ peek(vm, 0).value = Num(1)

\* C17: a second declaration of a name in the same block is a compile error
\* with the message 'Already a variable with this name in this scope.',
\* whatever the enclosing block declares, and two different names in a block
\* compile and run to InterpretOk even when the enclosing block declares one
\* of them.
C17_RedeclarationIsAnError ==
    \A outer \in RedeclareOuters, n1 \in RedeclareNames, n2 \in RedeclareNames :
        (/\ Source \in {Src(TwoLocals(n1, n2)), Redeclare(outer, n1, n2)}
         /\ calls = 1
         /\ phase \in {"idle", "aborted"})
          => IF n1 = n2
             THEN /\ result = "InterpretCompileError"
                  /\ Len(vm.compiler.stderr) > 0
                  /\ LastMessage(vm) = "Already a variable with this name in this scope."
             ELSE result = "InterpretOk"

\* C18: a declaration of a local whose initializer mentions the name being
\* declared is a compile error, in a block of its own, in a nested block, and
\* in a block nested in one that declares an initialized local of that name.
C18_OwnInitializerIsAnError ==
    \A outer \in InitializerOuters, init \in OwnInitializers :
        (/\ Source \in {Src(DeclareX(init)), InitializerProgram(outer, init)}
         /\ calls = 1
         /\ phase \in {"idle", "aborted"})
          => result = "InterpretCompileError"

\* the reference parse: the binding level of a binary operator, its postfix
\* code, and the postfix code of operands and operators in turn by operator
\* precedence with a stack of pending operators, where an operator waits only
\* for operators that bind tighter
Level(op) ==
    CASE op \in {"==", "!="} -> 1
      [] op \in {"<", "<=", ">", ">="} -> 2
      [] op \in {"+", "-"} -> 3
      [] op \in {"*", "/"} -> 4

OperatorCode(op) ==
    CASE op = "==" -> <<OpEqual>>
      [] op = "!=" -> <<OpEqual, OpNot>>
      [] op = "<" -> <<OpLess>>
      [] op = "<=" -> <<OpGreater, OpNot>>
      [] op = ">" -> <<OpGreater>>
      [] op = ">=" -> <<OpLess, OpNot>>
      [] op = "+" -> <<OpAdd>>
      [] op = "-" -> <<OpSubtract>>
      [] op = "*" -> <<OpMultiply>>
      [] op = "/" -> <<OpDivide>>

RECURSIVE Postfix(_, _, _, _)
Postfix(ops, k, out, pending) ==
    IF pending # <<>> /\ (k > Len(ops) \/ Level(pending[Len(pending)]) >= Level(ops[k]))
    THEN Postfix(ops, k, out \o OperatorCode(pending[Len(pending)]),
                 SubSeq(pending, 1, Len(pending) - 1))
    ELSE IF k > Len(ops) THEN out
    ELSE Postfix(ops, k + 1, out \o <<OpConstant, k>>, Append(pending, ops[k]))

\* the value of the reference parse of 7 o1 3 [o2 2] for operators + - *
Apply(op, a, b) == CASE op = "+" -> a + b [] op = "-" -> a - b [] op = "*" -> a * b

Grouped(ops) ==
    IF Len(ops) = 1 THEN Apply(ops[1], 7, 3)
    ELSE IF Level(ops[2]) > Level(ops[1]) THEN Apply(ops[1], 7, Apply(ops[2], 3, 2))
    ELSE Apply(ops[2], Apply(ops[1], 7, 3), 2)

\* C19: binary operators group by precedence and to the left: the bytecode of
\* `print 7 o1 3 o2 2 ... ;` is the postfix code of the reference parse
\* followed by Print and Return, for + - * the printed value is that of the
\* reference grouping with the first operand on the left, and `a = b = 3`
\* assigns 3 to b and then to a.
C19_PrecedenceAndGrouping ==
    /\ phase # "aborted"
    /\ \A ops \in OperatorRuns :
         (Source = BinaryProgram(ops) /\ calls = 1)
           => /\ result # "InterpretCompileError"
              /\ phase = "running"
                   => Code(vm) = Postfix(ops, 1, <<OpConstant, 0>>, <<>>)
                                   \o <<OpPrint, OpReturn>>
              /\ (phase = "idle" /\ Len(ops) <= 2
                    /\ \A i \in 1..Len(ops) : ops[i] \in {"+", "-", "*"})
                   => (result = "InterpretOk" /\ vm.stdout = <<Num(Grouped(ops))>>)
    /\ \A local \in BOOLEAN :
         (Source = ChainedAssignment(local) /\ calls = 1 /\ phase = "idle")
           => (result = "InterpretOk" /\ vm.stdout = <<Num(3), Num(3)>>)

C19_SubtractGroupsLeft ==
    /\ Source = BinaryProgram(<<"-", "-">>)
    /\ calls = 1
    /\ phase = "idle"
    /\ vm.stdout = <<Num(2)>>

\* the next instruction is an arithmetic or comparison instruction whose
\* operands have a type it does not take
TypeFault(v) ==
    /\ ~v.had_error
    /\ \/ /\ NextOp(v) \in {OpSubtract, OpMultiply, OpDivide, OpGreater, OpLess}
          /\ \E d \in {0, 1} : peek(v, d).value.tag # "Number"
       \/ /\ NextOp(v) = OpNegate
          /\ peek(v, 0).value.tag # "Number"
       \/ /\ NextOp(v) = OpAdd
          /\ \E d \in {0, 1} : peek(v, d).value.tag # "Number"
          /\ \E d \in {0, 1} : peek(v, d).value.tag # "String"

\* the step of run that ends the call after the step s
Ending(s) == IF s.outcome = "continue" THEN RunStep(s.vm) ELSE s

\* the programs of pool "types" whose operator does not take its operands
Mistyped(a, op, b) ==
    IF op = "+" THEN ~(a = "1" /\ b = "1") /\ ~(a = "\"s\"" /\ b = "\"s\"")
    ELSE ~(a = "1" /\ b = "1")

\* C20: when Subtract, Multiply, Divide, Greater or Less finds an operand
\* that is not a Number, Negate a non-Number, or Add operands that are
\* neither two Numbers nor two Strings, the instruction pushes nothing and
\* leaves the stack empty, the next step of run returns
\* InterpretRuntimeError without reading an instruction or printing, and the
\* call ends with InterpretRuntimeError and the second print statement not
\* executed; a program whose operands fit runs both print statements.
C20_TypeDiscipline ==
    /\ phase # "aborted"
    /\ (phase = "running" /\ TypeFault(vm))
         => /\ RunStep(vm).vm.stack_top = 0
            /\ RunStep(vm).outcome = "continue" => RunStep(vm).vm.had_error
            /\ Ending(RunStep(vm)).outcome = "InterpretRuntimeError"
            /\ Ending(RunStep(vm)).vm.stack_top = 0
            /\ Ending(RunStep(vm)).vm.stdout = vm.stdout
            /\ Ending(RunStep(vm)).vm.ip = vm.ip + 1
    /\ (phase = "running" /\ vm.had_error)
         => /\ vm.stack_top = 0
            /\ RunStep(vm).outcome = "InterpretRuntimeError"
    /\ \A a \in TypeOperands, op \in TypeOperators, b \in TypeOperands :
         (Source = TypeProgram(a, op, b) /\ calls = 1 /\ phase = "idle")
           => IF Mistyped(a, op, b)
              THEN /\ result = "InterpretRuntimeError"
                   /\ vm.stdout = <<>>
                   /\ vm.stack_top = 0
              ELSE /\ result = "InterpretOk"
                   /\ Len(vm.stdout) = 2
    /\ \A a \in TypeOperands :
         (Source = NegateProgram(a) /\ calls = 1 /\ phase = "idle")
           => IF a # "1"
              THEN /\ result = "InterpretRuntimeError"
                   /\ vm.stdout = <<>>
                   /\ vm.stack_top = 0
              ELSE /\ result = "InterpretOk"
                   /\ Len(vm.stdout) = 2

C20_SubtractFromString ==
    /\ Source = TypeProgram("\"s\"", "-", "1")
    /\ phase = "running"
    /\ vm.had_error
    /\ vm.stack_top = 0
    /\ vm.stdout = <<>>

\* C21: Add on two strings pushes the bytes of the left operand followed by
\* those of the right one, and after it the hash of the pushed string is a
\* key of the Strings table, as the hash of every string constant of the
\* chunk is.
C21_ConcatenationInterned ==
    /\ phase = "running"
         => \A i \in 1..Len(Constants(vm)) :
              Constants(vm)[i].value.tag = "String"
                => has_entry(vm.compiler.strings,
                             hash_str(Constants(vm)[i].value.v))
    /\ (phase = "running" /\ NextOp(vm) = OpAdd
          /\ peek(vm, 0).value.tag = "String" /\ peek(vm, 1).value.tag = "String")
         => /\ RunStep(vm).outcome = "continue"
            /\ RunStep(vm).vm.stack_top = vm.stack_top - 1
            /\ peek(RunStep(vm).vm, 0).value
                 = StringValue(peek(vm, 1).value.v \o peek(vm, 0).value.v)
            /\ has_entry(RunStep(vm).vm.compiler.strings,
                         hash_str(peek(vm, 1).value.v \o peek(vm, 0).value.v))

\* C22: no constant index is silently truncated: a program of n + 1
\* constants with n + 1 > 256 is a compile error, and otherwise the operand of
\* the last Constant instruction is the full index n, so `print 2 ;` prints 2.
C22_NoSilentTruncation ==
    \A n \in ConstantCounts :
        (Source = ManyConstants(n) /\ calls = 1)
          => /\ phase # "aborted"
             /\ n + 1 > 256 => result \in {"none", "InterpretCompileError"} /\ phase # "running"
             /\ (n + 1 <= 256 /\ phase = "running")
                  => Code(vm)[Len(Code(vm)) - 2] = n
             /\ (n + 1 <= 256 /\ phase = "idle")
                  => (result = "InterpretOk" /\ vm.stdout = <<Num(2)>>)

\* C23: a call of interpret that follows a call that returned
\* InterpretCompileError, on a source that a new compiler compiles without
\* error, does not return InterpretCompileError: the source is compiled to
\* the bytecode a new compiler emits for it and is run.
C23_FailedCallsDoNotLeak ==
    [][(/\ phase = "idle"
        /\ result = "InterpretCompileError"
        /\ calls' = calls + 1
        /\ ~compile(Compiler_new, Source').parser.had_error)
         => /\ result' # "InterpretCompileError"
            /\ phase' = "running"
            /\ Code(vm') = compile(Compiler_new, Source').chunk.code]_vars

\* C24: no call of a session whose programs assign only to y, a variable
\* declared without `final`, ends with the runtime error 'is final and cannot
\* be modified', whether y is a global or a local, whether a literal or the
\* value of x is assigned, and whatever is declared final before the
\* assignment or in an earlier call.
C24_NonFinalAssignable ==
    (phase = "idle" /\ calls > 0 /\ result = "InterpretRuntimeError")
      => LastMessage(vm) # "Variable '{}' is final and cannot be modified."



\* the two operand bytes of a distance, and the distance of two operand bytes
Short(n) == <<n \div 256, n % 256>>
Distance(code, p) == (code[p + 1] * 256) + code[p + 2]

\* the intended bytecode of the programs of pool "jumps", assembled from the
\* code of their parts: each JumpIfFalse and Jump spans the bytes up to the
\* instruction emitted after its patch_jump, each Loop the bytes back to its
\* loop_start
IfCode(cond, else) ==
    LET test == LogicCode(cond, 0)
        k == IF cond = "0" THEN 1 ELSE 0
        then == <<OpPop, OpConstant, k, OpPrint>>
        other == IF else THEN <<OpConstant, k + 1, OpPrint>> ELSE <<>>
        rest == <<OpConstant, k + (IF else THEN 2 ELSE 1), OpPrint, OpReturn>>
    IN  test \o <<OpJumpIfFalse>> \o Short(Len(then) + 3) \o then
          \o <<OpJump>> \o Short(1 + Len(other)) \o <<OpPop>> \o other \o rest

WhileCode ==
    LET decl == <<OpConstant, 1, OpDefineGlobal, 0>>
        test == <<OpGetGlobal, 2, OpConstant, 3, OpLess>>
        body == <<OpPop, OpGetGlobal, 5, OpConstant, 6, OpAdd, OpSetGlobal, 4, OpPop>>
        rest == <<OpPop, OpGetGlobal, 7, OpPrint, OpReturn>>
    IN  decl \o test \o <<OpJumpIfFalse>> \o Short(Len(body) + 3) \o body
          \o <<OpLoop>> \o Short(Len(test) + 3 + Len(body) + 3) \o rest

ForCode ==
    LET init == <<OpConstant, 0>>
        test == <<OpGetLocal, 0, OpConstant, 1, OpLess>>
        incr == <<OpGetLocal, 0, OpConstant, 2, OpAdd, OpSetLocal, 0, OpPop>>
        body == <<OpGetLocal, 0, OpPrint>>
        rest == <<OpPop, OpPop, OpReturn>>
    IN  init \o test
          \o <<OpJumpIfFalse>> \o Short(1 + 3 + Len(incr) + 3 + Len(body) + 3)
          \o <<OpPop, OpJump>> \o Short(Len(incr) + 3)
          \o incr \o <<OpLoop>> \o Short(Len(test) + 3 + 1 + 3 + Len(incr) + 3)
          \o body \o <<OpLoop>> \o Short(Len(incr) + 3 + Len(body) + 3)
          \o rest

AndOrCode(a, op, b) ==
    LET left == LogicCode(a, 0)
        right == LogicCode(b, Len(left) - 1)
        rest == <<OpPrint, OpReturn>>
    IN  IF op = "and"
        THEN left \o <<OpJumpIfFalse>> \o Short(1 + Len(right)) \o <<OpPop>>
               \o right \o rest
        ELSE left \o <<OpJumpIfFalse>> \o Short(3) \o <<OpJump>>
               \o Short(1 + Len(right)) \o <<OpPop>> \o right \o rest

JumpCode(src) ==
    IF \E n \in 0..MaxLen : src = WhileProgram(n) THEN WhileCode
    ELSE IF \E n \in 0..MaxLen : src = ForLocal(n) THEN ForCode
    ELSE IF \E cond \in IfConditions, else \in BOOLEAN : src = IfProgram(cond, else)
    THEN LET f == CHOOSE f \in IfConditions \X BOOLEAN : src = IfProgram(f[1], f[2])
         IN  IfCode(f[1], f[2])
    ELSE LET f == CHOOSE f \in (LogicOperands \X LogicOperators) \X LogicOperands :
                      src = LogicProgram(f[1][1], f[1][2], f[2])
         IN  AndOrCode(f[1][1], f[1][2], f[2])

\* C25: every jump lands on its intended instruction.  The chunk of each
\* program of pool "jumps" is its intended bytecode, whose jump operands span
\* exactly the bytes up to the instruction emitted after patch_jump and whose
\* loop operands the bytes back to loop_start; no operand is left 0xffff;
\* every target is the first byte of an instruction; and run moves ip by the
\* operand: forward for Jump and for JumpIfFalse on a falsey value, backward
\* for Loop, and past the operand for JumpIfFalse on a truthy value.
C25_JumpsLand ==
    /\ phase # "aborted"
    /\ (calls = 1 /\ phase = "idle") => result = "InterpretOk"
    /\ phase = "running"
         => /\ Code(vm) = JumpCode(Source)
            /\ \A p \in InstructionsFrom(Code(vm), 1) :
                 Code(vm)[p] \in {OpJump, OpJumpIfFalse, OpLoop}
                   => /\ Distance(Code(vm), p) # 65535
                      /\ (IF Code(vm)[p] = OpLoop
                          THEN (p + 3) - Distance(Code(vm), p)
                          ELSE (p + 3) + Distance(Code(vm), p))
                           \in InstructionsFrom(Code(vm), 1)
            /\ NextOp(vm) = OpJump
                 => RunStep(vm).vm.ip = (vm.ip + 3) + Distance(Code(vm), vm.ip + 1)
            /\ NextOp(vm) = OpLoop
                 => RunStep(vm).vm.ip = (vm.ip + 3) - Distance(Code(vm), vm.ip + 1)
            /\ NextOp(vm) = OpJumpIfFalse
                 => RunStep(vm).vm.ip
                      = (vm.ip + 3) + (IF is_falsey(peek(vm, 0).value)
                                       THEN Distance(Code(vm), vm.ip + 1) ELSE 0)

C25_WhileLoopedBack ==
    /\ Source = WhileProgram(2)
    /\ phase = "running"
    /\ NextOp(vm) = OpLess
    /\ peek(vm, 1).value = Num(1)

\* the compiler after the first declaration of a text up to the test of
\* panic_mode that ends Compiler::declaration, and the types of the tokens
\* that start a statement
FirstDeclaration(src) ==
    LET Declared(c) ==
            IF check(c, "Let") THEN var_declaration(Call("advance", c, PrecNone))
            ELSE Call("statement", c, PrecNone)
    IN  Declared(Call("advance", [Compiler_new EXCEPT !.scanner = init_scanner(src)],
                      PrecNone))

StatementStarts == {"Class", "Fun", "Var", "Let", "For", "If", "While", "Print", "Return"}

\* C26: the first declaration of a text reports at most one diagnostic, and
\* when it ends in panic_mode, synchronize returns with panic_mode false and
\* with the parser at a statement boundary: the token consumed last is `;`,
\* or the current token starts a statement or is Eof.
C26_SynchronizeToBoundary ==
    (calls = 1 /\ ~FirstDeclaration(Source).abort)
      => /\ Len(FirstDeclaration(Source).stderr) <= 1
         /\ FirstDeclaration(Source).parser.panic_mode
              => /\ ~synchronize(FirstDeclaration(Source)).parser.panic_mode
                 /\ \/ synchronize(FirstDeclaration(Source)).parser.previous.token_type
                         = "Semicolon"
                    \/ synchronize(FirstDeclaration(Source)).parser.current.token_type
                         \in StatementStarts \cup {"Eof"}

\* the bytes of the two messages of the scanner
UnexpectedCharacter ==
    <<"U", "n", "e", "x", "p", "e", "c", "t", "e", "d", " ",
      "c", "h", "a", "r", "a", "c", "t", "e", "r", ".">>

UnterminatedString ==
    <<"U", "n", "t", "e", "r", "m", "i", "n", "a", "t", "e", "d", " ",
      "s", "t", "r", "i", "n", "g", ".">>

\* C27: the message the compiler reports for an Error token, which is the
\* slice of the token, is the text 'Unexpected character.' or 'Unterminated
\* string.'.  A diagnostic with message "token.start" is one reported for an
\* Error token, and its text is the bytes reported.
C27_ErrorTokenCarriesMessage ==
    \A i \in 1..Len(vm.compiler.stderr) :
        vm.compiler.stderr[i].message = "token.start"
          => vm.compiler.stderr[i].text \in {UnexpectedCharacter, UnterminatedString}

\* the intended bytecode of FormProgram(cond, incr): the JumpIfFalse of the
\* condition is patched to the Pop emitted after the last Loop, and that Pop
\* and the Pop after the JumpIfFalse are there only with a condition
FormCode(cond, incr) ==
    LET k == Len(incr)
        test == IF cond = <<>> THEN <<>> ELSE LogicCode(cond[1], 0)
        step == IF incr = <<>> THEN <<>> ELSE <<OpConstant, 0, OpPop>>
        body == IF cond = <<>> THEN <<OpNil, OpConstant, k, OpAdd, OpPrint>>
                ELSE <<OpConstant, k, OpPrint>>
        enter == IF cond = <<>> THEN <<>> ELSE <<OpPop>>
        around == IF incr = <<>> THEN <<>>
                  ELSE (<<OpJump>> \o Short(Len(step) + 3)) \o step
                         \o <<OpLoop>>
                         \o Short(Len(test) + (IF cond = <<>> THEN 0 ELSE 4)
                                    + 3 + Len(step) + 3)
        back == IF incr = <<>>
                THEN Len(test) + (IF cond = <<>> THEN 0 ELSE 4) + Len(body) + 3
                ELSE Len(step) + 3 + Len(body) + 3
        leave == IF cond = <<>> THEN <<>> ELSE <<OpPop>>
        exit == IF cond = <<>> THEN <<>>
                ELSE <<OpJumpIfFalse>> \o Short(Len(enter) + Len(around) + Len(body) + 3)
    IN  test \o exit \o enter \o around \o body \o <<OpLoop>> \o Short(back)
          \o leave \o <<OpConstant, k + 1, OpPrint, OpReturn>>

\* the offsets (from 1) of the JumpIfFalse instructions of a chunk
ExitJumps(code) == {p \in InstructionsFrom(code, 1) : code[p] = OpJumpIfFalse}

\* C28: the exit jump of a for loop is patched and the Pop after the loop is
\* emitted if and only if the loop has a condition.  The offset emit_jump
\* returns for the JumpIfFalse, that of its first operand byte, is never 0;
\* with a condition the chunk has one JumpIfFalse, patched to the Pop that
\* follows the last Loop; without one it has no JumpIfFalse and no such Pop.
C28_ExitJumpGuard ==
    /\ phase # "aborted"
    /\ phase = "running"
         => /\ \A p \in ExitJumps(Code(vm)) :
                 /\ p # 0
                 /\ Distance(Code(vm), p) # 65535
                 /\ Code(vm)[(p + 3) + Distance(Code(vm), p)] = OpPop
                 /\ Code(vm)[(p + Distance(Code(vm), p))] = OpLoop
            /\ \A cond \in FormConditions, incr \in FormIncrements :
                 Source = FormProgram(cond, incr)
                   => /\ Code(vm) = FormCode(cond, incr)
                      /\ (cond # <<>>) <=> (ExitJumps(Code(vm)) # {})
            /\ (\E n \in 0..MaxLen : Source \in {ForLocal(n), ForGlobal(n), ForNoIncrement(n)})
                 => Cardinality(ExitJumps(Code(vm))) = 1
    /\ \A cond \in FormConditions, incr \in FormIncrements :
         (Source = FormProgram(cond, incr) /\ calls = 1 /\ phase = "idle")
           => IF cond = <<>>
              THEN result = "InterpretRuntimeError" /\ vm.stdout = <<>>
              ELSE result = "InterpretOk" /\ vm.stdout = <<Num(2)>>

C28_ConditionAtOffsetZero ==
    /\ Source = FormProgram(<<"false">>, <<>>)
    /\ phase = "running"
    /\ Code(vm)[1] = OpFalse
    /\ Code(vm)[2] = OpJumpIfFalse
    /\ NextOp(vm) = OpPop
    /\ vm.stack_top = 1
    /\ vm.ip = 11

\* a table is consistent: count is the number of its entries, no two entries
\* have the same key, and get is Some exactly for the keys of its entries
TableConsistent(t) ==
    /\ t.count = Len(t.entries)
    /\ \A i, j \in 1..Len(t.entries) : t.entries[i].key = t.entries[j].key => i = j
    /\ \A i \in 1..Len(t.entries) : Table_has(t, t.entries[i].key)

\* C29: after every sequence of set, delete and free that the calls of a
\* session make on the globals and the strings table, the one after the set
\* and delete of a SetGlobal of an undefined name included, each table is
\* consistent.
C29_TablesConsistent ==
    /\ TableConsistent(vm.compiler.globals)
    /\ TableConsistent(vm.compiler.strings)

\* the scanner of a text with i bytes consumed
ScannerAt(src, i) == [init_scanner(src) EXCEPT !.start = i, !.current = i]

\* C30: compile terminates on every text: scan_token on a text that is not
\* exhausted consumes at least one byte, and compile returns, with every
\* token consumed (the current token is Eof) and, when there was no compile
\* error, with Return as the last byte of the chunk; no text makes the
\* scanner or the parser abort instead of returning.
C30_CompileTerminates ==
    calls = 1
      => /\ \A i \in 0..(Len(Source) - 1) :
              \/ scan_token(ScannerAt(Source, i))[2].abort
              \/ scan_token(ScannerAt(Source, i))[2].current > i
         /\ phase # "aborted"
         /\ vm.compiler.parser.current.token_type = "Eof"
         /\ phase = "running" => Code(vm)[Len(Code(vm))] = OpReturn

====
